---- MODULE Spec2Model ----
(***************************************************************************)
(* A model of zkrust: the Session state machine (zkrust-core/session.rs),  *)
(* its use by concurrent handles, and the Device handshake                  *)
(* (zkrust/device.rs) over the packet codec, checksum and auth-key         *)
(* derivation of zkrust-core.                                               *)
(***************************************************************************)
EXTENDS Integers, Sequences, FiniteSets, TLC

VARIABLES
    session,    \* SessionInner: [state, session_id, reply_counter]
    last,       \* the last Session call made by the driver: op, arg, pre-state, result
    ids,        \* reply ids returned since the last successful initialize / close / new
    assigned,   \* id given to the initialize that connected the session (0 when none)
    thr,        \* concurrent callers: per thread its call, its position and its result
    lock,       \* SessionInner.state's RwLock is write-held
    start,      \* the Session as it was when the concurrent calls began
    stream,     \* Device.transport holds a socket (TcpTransport.stream / UdpTransport.socket)
    password,   \* Device.password, a u32 as two 16-bit halves
    pc,         \* where the Device's current async call is suspended ("idle": none)
    call,       \* the Device call in progress, or the last one made
    res,        \* what the last completed Device call returned
    rx,         \* buffers from the device waiting in the socket, oldest first
    tx,         \* buffers written to the transport by the current call, in order
    rxlog,      \* what receive_packet returned to the current call, in order
    unauth,     \* connect's local session_id taken from the AckUnauth response
    owed,       \* requests on the wire that the device has not answered yet
    link,       \* the current transport connection: whether a packet was sent on it,
                \* whether a receive on it returned without reading a buffer,
                \* the receives awaited since, and those awaited between the last two
    packet_in,  \* codec: the packet given to encode
    wire_buf,   \* codec: the buffer given to decode
    decoded,    \* codec: what decode returned for wire_buf
    calculated, \* codec: what checksum::calculate returned for packet_in's fields
    codec_op,   \* codec: how wire_buf was made
    proto,      \* which Transport the transport calls go to: "tcp" or "udp"
    use_tcp_wrapper, \* TcpTransport.use_tcp_wrapper of the transport in use
    fn_in,      \* pure functions: the function applied and its arguments
    fn_out,     \* pure functions: what it returned (0 before it is applied)
    inners,     \* the SessionInner allocations, in order of creation
    handles,    \* the Session handles: each the index of the allocation its Arc points to
    tlast       \* the last call made on the Transport itself: op, state before, result,
                \* and the bytes it wrote (send) or returned (receive)

svars == <<last, ids, assigned>>
cvars == <<thr, lock, start>>
dvars == <<stream, password, pc, call, res, rx, tx, rxlog, unauth, owed, link>>
pvars == <<packet_in, wire_buf, decoded, calculated, codec_op>>
xvars == <<proto, use_tcp_wrapper, fn_in, fn_out, inners, handles, tlast>>
vars == <<session, last, ids, assigned, thr, lock, start,
          stream, password, pc, call, res, rx, tx, rxlog, unauth, owed, link,
          packet_in, wire_buf, decoded, calculated, codec_op,
          proto, use_tcp_wrapper, fn_in, fn_out, inners, handles, tlast>>

\* ---------------------------------------------------------------- bounds

\* clones: the most Session handles made of one Session
MaxHandles == 3

\* pure functions: 16-bit values given as command, session id and reply id
Words == {0, 1, 1000, 65534, 65535}
ReplyWords == {0, 65535}

\* pure functions: passwords (u32 as two halves: 0, 1, 12345, 0x01000000,
\* 0x80003039, 0xFFFFFFFF), session ids and ticks given to make_commkey
KeyPasswords ==
    {[hi |-> 0, lo |-> 0], [hi |-> 0, lo |-> 1], [hi |-> 0, lo |-> 12345],
     [hi |-> 256, lo |-> 0], [hi |-> 32768, lo |-> 12345],
     [hi |-> 65535, lo |-> 65535]}
KeySessionIds == {0, 100, 200, 32031, 65535}
KeyTicks == {0, 50, 255}

\* pure functions: declared lengths written into a wrapped buffer's length field
LengthFields == {<<0, 0, 0, 0>>, <<1, 0, 0, 0>>, <<255, 255, 255, 255>>}

\* codec: the longest payload of a packet given to encode
MaxPayload == 2

\* codec: the byte values of those payloads
PayloadBytes == {0, 90, 255}

\* codec: session ids and reply ids of the packets given to encode
CodecSessionIds == {0, 2005, 65535}
CodecReplyIds == {0, 65535}

\* codec: command codes written over an encoded packet's command field
\* (outside the registry: 9999, the gaps 1008 and 16, 0xFFFE; inside: 2000)
OtherCodes == {9999, 1008, 16, 65534, 2000}

\* next_reply_id calls followed after one initialize / close
MaxCalls == 4

\* session ids the device may assign (u16 values; 0 and the extremes included)
SessionIds == {0, 1, 2005, 65535}

\* handles of one Session used by concurrent callers, one call each
NThreads == 2

Threads == 1..NThreads

\* ids given to initialize by the concurrent callers
ConcIds == {5, 7}

\* buffers that may wait unread in the socket
MaxRx == 1

\* requests that may wait unanswered at the device
MaxOwed == 2

\* commands issued on one session before it is closed
MaxCommands == 3

\* session ids carried by the device's responses
DeviceIds == {5, 7}

\* CommKey passwords configured with with_password (u32, as halves hi, lo)
Passwords == {[hi |-> 0, lo |-> 0], [hi |-> 32768, lo |-> 12345]}

\* command codes of the device's responses that carry either session id
AssigningCommands == {"AckOk", "AckUnauth"}

\* the other command codes of the device's responses: acks and one request code
OtherCommands ==
    {"AckData", "AckError", "AckErrorCmd", "AckErrorInit", "AckErrorData",
     "AckRetry", "Exit"}

\* ---------------------------------------------------------------- integers

U16 == 2^16

\* ---------------------------------------------------------------- session.rs

INITIAL_REPLY_ID == 65534

SessionStates == {"Disconnected", "Connected", "Authenticated"}

\* Session::new
SessionNew ==
    [state |-> "Disconnected", session_id |-> 0, reply_counter |-> INITIAL_REPLY_ID]

\* Session::session_id
get_session_id(s) == s.session_id

\* Session::state
get_state(s) == s.state

\* Session::is_connected
is_connected(s) == get_state(s) # "Disconnected"

\* Session::is_authenticated
is_authenticated(s) == get_state(s) = "Authenticated"

\* a plausible slip: the state guard of initialize left out
initialize_unguarded(s, id) ==
    [ok |-> TRUE, err |-> "None",
     s |-> [state |-> "Connected", session_id |-> id,
            reply_counter |-> INITIAL_REPLY_ID]]

\* Session::initialize, run by a single caller: Ok(()) or Err(InvalidSessionState)
initialize(s, id) ==
    IF s.state # "Disconnected"
    THEN [ok |-> FALSE, err |-> "InvalidSessionState", s |-> s]
    ELSE [ok |-> TRUE, err |-> "None",
          s |-> [state |-> "Connected", session_id |-> id,
                 reply_counter |-> INITIAL_REPLY_ID]]

\* a plausible slip: authenticate guarded by "not Authenticated" instead of "Connected"
authenticate_loose(s) ==
    IF s.state = "Authenticated"
    THEN [ok |-> FALSE, err |-> "InvalidSessionState", s |-> s]
    ELSE [ok |-> TRUE, err |-> "None", s |-> [s EXCEPT !.state = "Authenticated"]]

\* a plausible slip: authenticate starting the reply ids again, as initialize does
authenticate_resets(s) ==
    IF s.state # "Connected"
    THEN [ok |-> FALSE, err |-> "InvalidSessionState", s |-> s]
    ELSE [ok |-> TRUE, err |-> "None",
          s |-> [s EXCEPT !.state = "Authenticated",
                          !.reply_counter = INITIAL_REPLY_ID]]

\* Session::authenticate, run by a single caller
authenticate(s) ==
    IF s.state # "Connected"
    THEN [ok |-> FALSE, err |-> "InvalidSessionState", s |-> s]
    ELSE [ok |-> TRUE, err |-> "None", s |-> [s EXCEPT !.state = "Authenticated"]]

\* a plausible slip: close forgets to clear the session id
close_keeps_id(s) ==
    [state |-> "Disconnected", session_id |-> s.session_id,
     reply_counter |-> INITIAL_REPLY_ID]

\* a plausible slip: close forgets to reset the reply counter
close_keeps_counter(s) ==
    [state |-> "Disconnected", session_id |-> 0, reply_counter |-> s.reply_counter]

\* a plausible slip: close leaves the Session as it is
close_noop(s) == s

\* Session::close, run by a single caller
close(s) ==
    [state |-> "Disconnected", session_id |-> 0, reply_counter |-> INITIAL_REPLY_ID]

\* a plausible slip: the wrap test taken one id early (current >= 65534)
next_reply_id_early(s) ==
    LET current == s.reply_counter
        added   == (current + 1) % U16
    IN  [ret |-> current,
         s   |-> [s EXCEPT !.reply_counter = IF current >= 65534 THEN 0 ELSE added]]

\* Session::next_reply_id, run by a single caller: fetch_add(1) on an AtomicU16
\* (wrapping), then the store of 0 when the fetched value is 65535
next_reply_id(s) ==
    LET current == s.reply_counter
        added   == (current + 1) % U16
    IN  [ret |-> current,
         s   |-> [s EXCEPT !.reply_counter = IF current >= 65535 THEN 0 ELSE added]]

\* ---------------------------------------------------------------- bytes and words

\* bitwise XOR of two n-bit values
RECURSIVE Xor(_, _, _)
Xor(a, b, n) ==
    IF n = 0 THEN 0
    ELSE (((a % 2) + (b % 2)) % 2) + 2 * Xor(a \div 2, b \div 2, n - 1)

\* u16::to_le_bytes
to_le_bytes(w) == <<w % 256, w \div 256>>

\* u16::from_le_bytes
from_le_bytes(lo, hi) == lo + 256 * hi

\* ---------------------------------------------------------------- command.rs

\* enum Command
Commands ==
    {"Connect", "Exit", "EnableDevice", "DisableDevice", "Restart", "PowerOff",
     "Sleep", "Resume", "CaptureFinger", "TestTemp", "CaptureImage", "RefreshData",
     "RefreshOption", "TestVoice", "GetVersion", "ChangeSpeed", "Auth",
     "PrepareData", "Data", "FreeData", "DbRrq", "UserWrq", "UserTempRrq",
     "UserTempWrq", "OptionsRrq", "OptionsWrq", "AttLogRrq", "ClearData",
     "ClearAttLog", "DeleteUser", "DeleteUserTemp", "ClearAdmin", "UserGrpRrq",
     "UserGrpWrq", "UserTzRrq", "UserTzWrq", "GrpTzRrq", "GrpTzWrq", "TzRrq",
     "TzWrq", "UlgRrq", "UlgWrq", "Unlock", "ClearAcc", "ClearOpLog", "OpLogRrq",
     "GetFreeSizes", "EnableClock", "StartVerify", "StartEnroll", "CancelCapture",
     "StateRrq", "WriteLcd", "ClearLcd", "GetPinWidth", "SmsWrq", "SmsRrq",
     "DeleteSms", "UDataWrq", "DeleteUData", "DoorStateRrq", "WriteMifare",
     "EmptyMifare", "GetTime", "SetTime", "RegEvent", "AckOk", "AckError", "AckData",
     "AckRetry", "AckRepeat", "AckUnauth", "AckUnknown", "AckErrorCmd",
     "AckErrorInit", "AckErrorData"}

\* impl From<Command> for u16: the #[repr(u16)] discriminant
to_code(c) ==
    CASE c = "Connect" -> 1000
      [] c = "Exit" -> 1001
      [] c = "EnableDevice" -> 1002
      [] c = "DisableDevice" -> 1003
      [] c = "Restart" -> 1004
      [] c = "PowerOff" -> 1005
      [] c = "Sleep" -> 1006
      [] c = "Resume" -> 1007
      [] c = "CaptureFinger" -> 1009
      [] c = "TestTemp" -> 1011
      [] c = "CaptureImage" -> 1012
      [] c = "RefreshData" -> 1013
      [] c = "RefreshOption" -> 1014
      [] c = "TestVoice" -> 1017
      [] c = "GetVersion" -> 1100
      [] c = "ChangeSpeed" -> 1101
      [] c = "Auth" -> 1102
      [] c = "PrepareData" -> 1500
      [] c = "Data" -> 1501
      [] c = "FreeData" -> 1502
      [] c = "DbRrq" -> 7
      [] c = "UserWrq" -> 8
      [] c = "UserTempRrq" -> 9
      [] c = "UserTempWrq" -> 10
      [] c = "OptionsRrq" -> 11
      [] c = "OptionsWrq" -> 12
      [] c = "AttLogRrq" -> 13
      [] c = "ClearData" -> 14
      [] c = "ClearAttLog" -> 15
      [] c = "DeleteUser" -> 18
      [] c = "DeleteUserTemp" -> 19
      [] c = "ClearAdmin" -> 20
      [] c = "UserGrpRrq" -> 21
      [] c = "UserGrpWrq" -> 22
      [] c = "UserTzRrq" -> 23
      [] c = "UserTzWrq" -> 24
      [] c = "GrpTzRrq" -> 25
      [] c = "GrpTzWrq" -> 26
      [] c = "TzRrq" -> 27
      [] c = "TzWrq" -> 28
      [] c = "UlgRrq" -> 29
      [] c = "UlgWrq" -> 30
      [] c = "Unlock" -> 31
      [] c = "ClearAcc" -> 32
      [] c = "ClearOpLog" -> 33
      [] c = "OpLogRrq" -> 34
      [] c = "GetFreeSizes" -> 50
      [] c = "EnableClock" -> 57
      [] c = "StartVerify" -> 60
      [] c = "StartEnroll" -> 61
      [] c = "CancelCapture" -> 62
      [] c = "StateRrq" -> 64
      [] c = "WriteLcd" -> 66
      [] c = "ClearLcd" -> 67
      [] c = "GetPinWidth" -> 69
      [] c = "SmsWrq" -> 70
      [] c = "SmsRrq" -> 71
      [] c = "DeleteSms" -> 72
      [] c = "UDataWrq" -> 73
      [] c = "DeleteUData" -> 74
      [] c = "DoorStateRrq" -> 75
      [] c = "WriteMifare" -> 76
      [] c = "EmptyMifare" -> 78
      [] c = "GetTime" -> 201
      [] c = "SetTime" -> 202
      [] c = "RegEvent" -> 500
      [] c = "AckOk" -> 2000
      [] c = "AckError" -> 2001
      [] c = "AckData" -> 2002
      [] c = "AckRetry" -> 2003
      [] c = "AckRepeat" -> 2004
      [] c = "AckUnauth" -> 2005
      [] c = "AckUnknown" -> 65535
      [] c = "AckErrorCmd" -> 65533
      [] c = "AckErrorInit" -> 65532
      [] c = "AckErrorData" -> 65531

CmdOk(c) == [ok |-> TRUE, command |-> c, err |-> "None", code |-> 0]

UnknownCommand(value) ==
    [ok |-> FALSE, command |-> "none", err |-> "UnknownCommand", code |-> value]

\* a plausible slip: a code outside the registry accepted as some command
try_from_any(value) == CmdOk("Connect")

\* impl TryFrom<u16> for Command
try_from(value) ==
    CASE value = 1000 -> CmdOk("Connect")
      [] value = 1001 -> CmdOk("Exit")
      [] value = 1002 -> CmdOk("EnableDevice")
      [] value = 1003 -> CmdOk("DisableDevice")
      [] value = 1004 -> CmdOk("Restart")
      [] value = 1005 -> CmdOk("PowerOff")
      [] value = 1006 -> CmdOk("Sleep")
      [] value = 1007 -> CmdOk("Resume")
      [] value = 1009 -> CmdOk("CaptureFinger")
      [] value = 1011 -> CmdOk("TestTemp")
      [] value = 1012 -> CmdOk("CaptureImage")
      [] value = 1013 -> CmdOk("RefreshData")
      [] value = 1014 -> CmdOk("RefreshOption")
      [] value = 1017 -> CmdOk("TestVoice")
      [] value = 1100 -> CmdOk("GetVersion")
      [] value = 1101 -> CmdOk("ChangeSpeed")
      [] value = 1102 -> CmdOk("Auth")
      [] value = 1500 -> CmdOk("PrepareData")
      [] value = 1501 -> CmdOk("Data")
      [] value = 1502 -> CmdOk("FreeData")
      [] value = 7 -> CmdOk("DbRrq")
      [] value = 8 -> CmdOk("UserWrq")
      [] value = 9 -> CmdOk("UserTempRrq")
      [] value = 10 -> CmdOk("UserTempWrq")
      [] value = 11 -> CmdOk("OptionsRrq")
      [] value = 12 -> CmdOk("OptionsWrq")
      [] value = 13 -> CmdOk("AttLogRrq")
      [] value = 14 -> CmdOk("ClearData")
      [] value = 15 -> CmdOk("ClearAttLog")
      [] value = 18 -> CmdOk("DeleteUser")
      [] value = 19 -> CmdOk("DeleteUserTemp")
      [] value = 20 -> CmdOk("ClearAdmin")
      [] value = 21 -> CmdOk("UserGrpRrq")
      [] value = 22 -> CmdOk("UserGrpWrq")
      [] value = 23 -> CmdOk("UserTzRrq")
      [] value = 24 -> CmdOk("UserTzWrq")
      [] value = 25 -> CmdOk("GrpTzRrq")
      [] value = 26 -> CmdOk("GrpTzWrq")
      [] value = 27 -> CmdOk("TzRrq")
      [] value = 28 -> CmdOk("TzWrq")
      [] value = 29 -> CmdOk("UlgRrq")
      [] value = 30 -> CmdOk("UlgWrq")
      [] value = 31 -> CmdOk("Unlock")
      [] value = 32 -> CmdOk("ClearAcc")
      [] value = 33 -> CmdOk("ClearOpLog")
      [] value = 34 -> CmdOk("OpLogRrq")
      [] value = 50 -> CmdOk("GetFreeSizes")
      [] value = 57 -> CmdOk("EnableClock")
      [] value = 60 -> CmdOk("StartVerify")
      [] value = 61 -> CmdOk("StartEnroll")
      [] value = 62 -> CmdOk("CancelCapture")
      [] value = 64 -> CmdOk("StateRrq")
      [] value = 66 -> CmdOk("WriteLcd")
      [] value = 67 -> CmdOk("ClearLcd")
      [] value = 69 -> CmdOk("GetPinWidth")
      [] value = 70 -> CmdOk("SmsWrq")
      [] value = 71 -> CmdOk("SmsRrq")
      [] value = 72 -> CmdOk("DeleteSms")
      [] value = 73 -> CmdOk("UDataWrq")
      [] value = 74 -> CmdOk("DeleteUData")
      [] value = 75 -> CmdOk("DoorStateRrq")
      [] value = 76 -> CmdOk("WriteMifare")
      [] value = 78 -> CmdOk("EmptyMifare")
      [] value = 201 -> CmdOk("GetTime")
      [] value = 202 -> CmdOk("SetTime")
      [] value = 500 -> CmdOk("RegEvent")
      [] value = 2000 -> CmdOk("AckOk")
      [] value = 2001 -> CmdOk("AckError")
      [] value = 2002 -> CmdOk("AckData")
      [] value = 2003 -> CmdOk("AckRetry")
      [] value = 2004 -> CmdOk("AckRepeat")
      [] value = 2005 -> CmdOk("AckUnauth")
      [] value = 65535 -> CmdOk("AckUnknown")
      [] value = 65533 -> CmdOk("AckErrorCmd")
      [] value = 65532 -> CmdOk("AckErrorInit")
      [] value = 65531 -> CmdOk("AckErrorData")
      [] OTHER -> UnknownCommand(value)

\* Command::is_response
is_response(c) ==
    c \in {"AckOk", "AckError", "AckData", "AckRetry", "AckRepeat", "AckUnauth",
           "AckUnknown", "AckErrorCmd", "AckErrorInit", "AckErrorData"}

\* Command::is_request
is_request(c) == ~is_response(c)

\* a plausible slip: AckData not counted as success
is_success_ok_only(c) == c = "AckOk"

\* Command::is_success
is_success(c) == c \in {"AckOk", "AckData"}

\* Command::is_error
is_error(c) == c \in {"AckError", "AckErrorCmd", "AckErrorInit", "AckErrorData"}

\* ---------------------------------------------------------------- checksum.rs

\* the fold applied after each addition: while sum > 0xFFFF { sum -= 0xFFFF }
\* a plausible slip: the carry dropped (0x10000 subtracted) instead of wrapped
Fold_pow2(sum) == IF sum > 65535 THEN sum - 65536 ELSE sum

RECURSIVE Fold(_)
Fold(sum) == IF sum > 65535 THEN Fold(sum - 65535) ELSE sum

\* one chunk of buf.chunks(2): a full chunk is a little-endian word, an odd last
\* byte is the low byte of a word
Chunk(buf, k) ==
    IF 2 * k <= Len(buf) THEN from_le_bytes(buf[2 * k - 1], buf[2 * k])
    ELSE buf[2 * k - 1]

\* the loop over buf.chunks(2), chunks lo..hi taken in order with the running sum
\* folded after each addition; the range is walked by halves, the sum of the
\* first half bound to its value (v) before the second half is walked, so that a
\* buffer of the largest size is summed within the evaluator's stack
RECURSIVE SumChunks(_, _, _, _)
SumChunks(buf, lo, hi, sum) ==
    IF lo > hi THEN sum
    ELSE IF lo = hi THEN Fold(sum + Chunk(buf, lo))
    ELSE LET mid  == (lo + hi) \div 2
             left == SumChunks(buf, lo, mid, sum)
         IN  CHOOSE r \in {SumChunks(buf, mid + 1, hi, v) : v \in {left}} : TRUE

\* "!sum as u16": the complement of a u32, truncated to its low 16 bits
not_as_u16(sum) == (U16 - 1) - (sum % U16)

\* a plausible slip: the session id left out of the summed buffer
calculate_no_session(command, session_id, reply_id, payload) ==
    LET buf == to_le_bytes(command) \o <<0, 0>> \o to_le_bytes(reply_id) \o payload
        sum == Fold(SumChunks(buf, 1, (Len(buf) + 1) \div 2, 0))
    IN  not_as_u16(sum)

\* checksum::calculate
calculate(command, session_id, reply_id, payload) ==
    LET buf == to_le_bytes(command) \o <<0, 0>> \o to_le_bytes(session_id)
               \o to_le_bytes(reply_id) \o payload
        sum == Fold(SumChunks(buf, 1, (Len(buf) + 1) \div 2, 0))
    IN  not_as_u16(sum)

\* a plausible slip: the comparison made on the low byte only
verify_low_byte(command, session_id, reply_id, payload, expected) ==
    calculate(command, session_id, reply_id, payload) % 256 = expected % 256

\* checksum::verify
verify(command, session_id, reply_id, payload, expected) ==
    calculate(command, session_id, reply_id, payload) = expected

\* ---------------------------------------------------------------- packet.rs

\* Packet::MAX_PAYLOAD_SIZE
MAX_PAYLOAD_SIZE == 65535 - 8

\* a plausible slip: a header taken to be two bytes longer
HEADER_SIZE_ten == 8 + 2

HEADER_SIZE == 8

\* a plausible slip: the checksum left out of the packet
checksum_zero(p) == 0

\* Packet::new
PacketNew(command, session_id, reply_id) ==
    [command |-> command, session_id |-> session_id, reply_id |-> reply_id,
     payload |-> <<>>]

\* a with_payload that leaves the payload out
with_payload_dropped(command, session_id, reply_id, payload) ==
    PacketNew(command, session_id, reply_id)

\* Packet::with_payload
with_payload(command, session_id, reply_id, payload) ==
    [command |-> command, session_id |-> session_id, reply_id |-> reply_id,
     payload |-> payload]

\* Packet::checksum
checksum(p) == calculate(to_code(p.command), p.session_id, p.reply_id, p.payload)

\* a plausible slip: the session id and the reply id written in each other's place
encode_swapped(p) ==
    to_le_bytes(to_code(p.command)) \o to_le_bytes(checksum(p))
    \o to_le_bytes(p.reply_id) \o to_le_bytes(p.session_id) \o p.payload

\* Packet::encode
encode(p) ==
    to_le_bytes(to_code(p.command)) \o to_le_bytes(checksum(p))
    \o to_le_bytes(p.session_id) \o to_le_bytes(p.reply_id) \o p.payload

NoPacket == PacketNew("none", 0, 0)

\* a plausible slip: the received checksum read but never compared
decode_unchecked(buf) ==
    IF Len(buf) < HEADER_SIZE
    THEN [ok |-> FALSE, err |-> "PacketTooShort", expected |-> HEADER_SIZE,
          actual |-> Len(buf), packet |-> NoPacket]
    ELSE LET command == try_from(from_le_bytes(buf[1], buf[2]))
         IN  IF ~command.ok
             THEN [ok |-> FALSE, err |-> "UnknownCommand",
                   expected |-> from_le_bytes(buf[1], buf[2]),
                   actual |-> from_le_bytes(buf[1], buf[2]), packet |-> NoPacket]
             ELSE [ok |-> TRUE, err |-> "None", expected |-> 0, actual |-> 0,
                   packet |-> with_payload(command.command,
                                           from_le_bytes(buf[5], buf[6]),
                                           from_le_bytes(buf[7], buf[8]),
                                           SubSeq(buf, 9, Len(buf)))]

\* Packet::decode
decode(buf) ==
    IF Len(buf) < HEADER_SIZE
    THEN [ok |-> FALSE, err |-> "PacketTooShort", expected |-> HEADER_SIZE,
          actual |-> Len(buf), packet |-> NoPacket]
    ELSE LET command_raw       == from_le_bytes(buf[1], buf[2])
             checksum_received == from_le_bytes(buf[3], buf[4])
             session_id        == from_le_bytes(buf[5], buf[6])
             reply_id          == from_le_bytes(buf[7], buf[8])
             command           == try_from(command_raw)
             payload           == SubSeq(buf, 9, Len(buf))
         IN  IF ~command.ok
             THEN [ok |-> FALSE, err |-> "UnknownCommand", expected |-> command_raw,
                   actual |-> command_raw, packet |-> NoPacket]
             ELSE LET packet == with_payload(command.command, session_id, reply_id,
                                             payload)
                      checksum_calculated == checksum(packet)
                  IN  IF checksum_calculated # checksum_received
                      THEN [ok |-> FALSE, err |-> "ChecksumMismatch",
                            expected |-> checksum_calculated,
                            actual |-> checksum_received, packet |-> NoPacket]
                      ELSE [ok |-> TRUE, err |-> "None", expected |-> 0,
                            actual |-> 0, packet |-> packet]

\* a well-formed buffer whose checksum field was changed on the way
Corrupted(buf) == [buf EXCEPT ![3] = (buf[3] + 1) % 256]

\* what may arrive from the device: the assigning responses with every id in
\* DeviceIds, the others with one, a truncated buffer, a corrupted one and an
\* unknown command code (9999)
Responses ==
    {encode(PacketNew(c, id, 0)) : c \in AssigningCommands, id \in DeviceIds}
    \cup {encode(PacketNew(c, 5, 0)) : c \in OtherCommands}
    \cup {<<208, 7, 0>>,
          Corrupted(encode(PacketNew("AckOk", 5, 0))),
          <<15, 39, 240, 216, 0, 0, 0, 0>>}

\* ---------------------------------------------------------------- auth.rs

\* a u32 as its two 16-bit halves
U32Of(hi, lo) == [hi |-> hi, lo |-> lo]

\* password & (1 << i) != 0
BitSet(pwd, i) ==
    IF i < 16 THEN (pwd.lo \div 2^i) % 2 = 1
    ELSE (pwd.hi \div 2^(i - 16)) % 2 = 1

\* k << 1, and (k << 1) | 1, on a u32
Shl1(k, bit) ==
    [hi |-> ((k.hi * 2) + (k.lo \div 32768)) % U16, lo |-> ((k.lo * 2) % U16) + bit]

\* the loop "for i in 0..32" that reverses the bits of the password; k is
\* bound to its value at every iteration (v) rather than passed on unevaluated
RECURSIVE ReverseBits(_, _, _)
ReverseBits(pwd, k, i) ==
    IF i = 32 THEN k
    ELSE LET shifted == Shl1(k, IF BitSet(pwd, i) THEN 1 ELSE 0)
         IN  CHOOSE r \in {ReverseBits(pwd, v, i + 1) : v \in {shifted}} : TRUE

\* u32::wrapping_add(session_id as u32)
wrapping_add(k, session_id) ==
    [hi |-> (k.hi + ((k.lo + session_id) \div U16)) % U16,
     lo |-> (k.lo + session_id) % U16]

\* u32::to_le_bytes
to_le_bytes32(k) == to_le_bytes(k.lo) \o to_le_bytes(k.hi)

\* a plausible slip: byte 2 XORed with ticks like its neighbours
make_commkey_xor2(pwd, session_id, ticks) ==
    LET k     == wrapping_add(ReverseBits(pwd, [hi |-> 0, lo |-> 0], 0), session_id)
        bytes == to_le_bytes32(k)
        xored == <<Xor(bytes[1], 90, 8), Xor(bytes[2], 75, 8),
                   Xor(bytes[3], 83, 8), Xor(bytes[4], 79, 8)>>
        low   == from_le_bytes(xored[1], xored[2])
        high  == from_le_bytes(xored[3], xored[4])
        swapped == to_le_bytes(high) \o to_le_bytes(low)
    IN  <<Xor(swapped[1], ticks, 8), Xor(swapped[2], ticks, 8),
          Xor(swapped[3], ticks, 8), Xor(swapped[4], ticks, 8)>>

\* auth::make_commkey
make_commkey(pwd, session_id, ticks) ==
    LET k     == wrapping_add(ReverseBits(pwd, [hi |-> 0, lo |-> 0], 0), session_id)
        bytes == to_le_bytes32(k)
        xored == <<Xor(bytes[1], 90, 8), Xor(bytes[2], 75, 8),
                   Xor(bytes[3], 83, 8), Xor(bytes[4], 79, 8)>>
        low   == from_le_bytes(xored[1], xored[2])
        high  == from_le_bytes(xored[3], xored[4])
        swapped == to_le_bytes(high) \o to_le_bytes(low)
    IN  <<Xor(swapped[1], ticks, 8), Xor(swapped[2], ticks, 8), ticks,
          Xor(swapped[4], ticks, 8)>>

\* ---------------------------------------------------------------- Session driver

NoCall == [op |-> "new", arg |-> 0, pre |-> SessionNew, ok |-> TRUE,
           err |-> "None", ret |-> 0]

Idle == [op |-> "none", arg |-> 0, pc |-> "done", ok |-> TRUE, ret |-> 0]

ResOk == [ok |-> TRUE, err |-> "None", msg |-> "None", command |-> "None"]

\* a call that returned Ok after logging warning m
ResWarn(m) == [ok |-> TRUE, err |-> "None", msg |-> m, command |-> "None"]

ResErr(e, m) == [ok |-> FALSE, err |-> e, msg |-> m, command |-> "None"]

\* an error whose message ends with the Display of a command
ResErrCommand(e, m, c) == [ok |-> FALSE, err |-> e, msg |-> m, command |-> c]

\* a transport connection on which nothing was sent yet
NewLink == [sent |-> FALSE, awaits |-> 0, gap |-> 1, lost |-> FALSE]

\* the connection after one more packet was written to it
Sent(l) ==
    [sent |-> TRUE, awaits |-> 0, gap |-> IF l.sent THEN l.awaits ELSE 1,
     lost |-> l.lost]

\* the connection after one more receive was awaited on it; got: the receive
\* read a buffer (it did not end in ReadTimeout, ConnectionClosed or an I/O error)
Awaited(l, got) ==
    [l EXCEPT !.awaits = IF @ < 2 THEN @ + 1 ELSE @, !.lost = @ \/ ~got]

\* Device::new / Device::new_udp, before with_password
DeviceNew ==
    /\ stream = FALSE
    /\ pc = "idle"
    /\ call = "new"
    /\ res = ResOk
    /\ rx = <<>>
    /\ tx = <<>>
    /\ rxlog = <<>>
    /\ unauth = 0
    /\ owed = 0
    /\ link = NewLink

NoThreads ==
    /\ thr = [t \in Threads |-> Idle]
    /\ lock = FALSE
    /\ start = SessionNew

\* decode not called yet
NoDecode == [ok |-> FALSE, err |-> "NotRun", expected |-> 0, actual |-> 0,
             packet |-> NoPacket]

NoCodec ==
    /\ packet_in = NoPacket
    /\ wire_buf = <<>>
    /\ decoded = NoDecode
    /\ calculated = 0
    /\ codec_op = "none"

\* no call made on the Transport yet
NoTransportCall ==
    [op |-> "new", was |-> FALSE, net |-> "None", ok |-> TRUE, err |-> "None",
     data |-> <<>>]

\* no pure function applied, no handle made, the transport calls not driven; the
\* transport is the one Device::new builds, TcpTransport::new(ip, port)
\* .with_tcp_wrapper(false)
NoExtra ==
    /\ proto = "tcp"
    /\ use_tcp_wrapper = FALSE
    /\ fn_in = [f |-> "none", done |-> FALSE]
    /\ fn_out = 0
    /\ inners = <<>>
    /\ handles = <<>>
    /\ tlast = NoTransportCall

NoDriver ==
    /\ last = NoCall
    /\ ids = <<>>
    /\ assigned = 0

Init ==
    /\ session = SessionNew
    /\ last = NoCall
    /\ ids = <<>>
    /\ assigned = 0
    /\ NoThreads
    /\ DeviceNew
    /\ password = U32Of(0, 0)
    /\ NoCodec
    /\ NoExtra

Initialize(id) ==
    LET r == initialize(session, id)
    IN  /\ session' = r.s
        /\ last' = [op |-> "initialize", arg |-> id, pre |-> session, ok |-> r.ok,
                    err |-> r.err, ret |-> 0]
        /\ ids' = IF r.ok THEN <<>> ELSE ids
        /\ assigned' = IF r.ok THEN id ELSE assigned
        /\ UNCHANGED <<cvars, dvars, pvars, xvars>>

Authenticate ==
    LET r == authenticate(session)
    IN  /\ session' = r.s
        /\ last' = [op |-> "authenticate", arg |-> 0, pre |-> session, ok |-> r.ok,
                    err |-> r.err, ret |-> 0]
        /\ UNCHANGED <<ids, assigned, cvars, dvars, pvars, xvars>>

Close ==
    /\ session' = close(session)
    /\ last' = [op |-> "close", arg |-> 0, pre |-> session, ok |-> TRUE,
                err |-> "None", ret |-> 0]
    /\ ids' = <<>>
    /\ assigned' = 0
    /\ UNCHANGED <<cvars, dvars, pvars, xvars>>

NextReplyId ==
    LET r == next_reply_id(session)
    IN  /\ Len(ids) < MaxCalls
        /\ session' = r.s
        /\ last' = [op |-> "next_reply_id", arg |-> 0, pre |-> session, ok |-> TRUE,
                    err |-> "None", ret |-> r.ret]
        /\ ids' = Append(ids, r.ret)
        /\ UNCHANGED <<assigned, cvars, dvars, pvars, xvars>>

\* the read accessors: session_id(), state(), is_connected(), is_authenticated()
ReadSessionId ==
    /\ last' = [op |-> "session_id", arg |-> 0, pre |-> session, ok |-> TRUE,
                err |-> "None", ret |-> get_session_id(session)]
    /\ UNCHANGED <<session, ids, assigned, cvars, dvars, pvars, xvars>>

ReadState ==
    /\ last' = [op |-> "state", arg |-> 0, pre |-> session, ok |-> TRUE,
                err |-> "None", ret |-> get_state(session)]
    /\ UNCHANGED <<session, ids, assigned, cvars, dvars, pvars, xvars>>

ReadIsConnected ==
    /\ last' = [op |-> "is_connected", arg |-> 0, pre |-> session, ok |-> TRUE,
                err |-> "None", ret |-> is_connected(session)]
    /\ UNCHANGED <<session, ids, assigned, cvars, dvars, pvars, xvars>>

ReadIsAuthenticated ==
    /\ last' = [op |-> "is_authenticated", arg |-> 0, pre |-> session, ok |-> TRUE,
                err |-> "None", ret |-> is_authenticated(session)]
    /\ UNCHANGED <<session, ids, assigned, cvars, dvars, pvars, xvars>>

Next ==
    \/ \E id \in SessionIds : Initialize(id)
    \/ Authenticate
    \/ Close
    \/ NextReplyId
    \/ ReadSessionId
    \/ ReadState
    \/ ReadIsConnected
    \/ ReadIsAuthenticated

Spec == Init /\ [][Next]_vars

\* ---------------------------------------------------------------- concurrent handles

\* the calls a thread may make on its handle
Calls ==
    {[op |-> "initialize", arg |-> id, pc |-> "start", ok |-> TRUE, ret |-> 0] :
        id \in ConcIds}
    \cup {[op |-> o, arg |-> 0, pc |-> "start", ok |-> TRUE, ret |-> 0] :
            o \in {"authenticate", "close", "next_reply_id"}}

\* Sessions a single caller can have produced before the concurrent calls begin
StartSessions ==
    {SessionNew}
    \cup {[state |-> st, session_id |-> id, reply_counter |-> c] :
            st \in {"Connected", "Authenticated"}, id \in ConcIds,
            c \in {INITIAL_REPLY_ID, 65535}}

ConcInit ==
    /\ start \in StartSessions
    /\ session = start
    /\ lock = FALSE
    /\ thr \in [Threads -> Calls]
    /\ NoDriver
    /\ DeviceNew
    /\ password = U32Of(0, 0)
    /\ NoCodec
    /\ NoExtra

At(t, o, p) == thr[t].op = o /\ thr[t].pc = p

Goto(t, p) == thr' = [thr EXCEPT ![t].pc = p]

\* initialize: state.write() taken, the guard evaluated under it; the failing
\* return drops the guard
T_InitLock(t) ==
    /\ At(t, "initialize", "start")
    /\ ~lock
    /\ IF session.state # "Disconnected"
       THEN /\ thr' = [thr EXCEPT ![t].pc = "done", ![t].ok = FALSE]
            /\ UNCHANGED lock
       ELSE /\ Goto(t, "i_sid")
            /\ lock' = TRUE
    /\ UNCHANGED <<session, start, svars, dvars, pvars, xvars>>

\* initialize: session_id.store(session_id)
T_InitStoreSid(t) ==
    /\ At(t, "initialize", "i_sid")
    /\ session' = [session EXCEPT !.session_id = thr[t].arg]
    /\ Goto(t, "i_ctr")
    /\ UNCHANGED <<lock, start, svars, dvars, pvars, xvars>>

\* initialize: reply_counter.store(INITIAL_REPLY_ID)
T_InitStoreCtr(t) ==
    /\ At(t, "initialize", "i_ctr")
    /\ session' = [session EXCEPT !.reply_counter = INITIAL_REPLY_ID]
    /\ Goto(t, "i_state")
    /\ UNCHANGED <<lock, start, svars, dvars, pvars, xvars>>

\* initialize: *state = Connected, the guard dropped on return
T_InitSetState(t) ==
    /\ At(t, "initialize", "i_state")
    /\ session' = [session EXCEPT !.state = "Connected"]
    /\ lock' = FALSE
    /\ Goto(t, "done")
    /\ UNCHANGED <<start, svars, dvars, pvars, xvars>>

\* authenticate: state.write() taken, the guard evaluated under it
T_AuthLock(t) ==
    /\ At(t, "authenticate", "start")
    /\ ~lock
    /\ IF session.state # "Connected"
       THEN /\ thr' = [thr EXCEPT ![t].pc = "done", ![t].ok = FALSE]
            /\ UNCHANGED lock
       ELSE /\ Goto(t, "a_state")
            /\ lock' = TRUE
    /\ UNCHANGED <<session, start, svars, dvars, pvars, xvars>>

\* authenticate: *state = Authenticated, the guard dropped on return
T_AuthSetState(t) ==
    /\ At(t, "authenticate", "a_state")
    /\ session' = [session EXCEPT !.state = "Authenticated"]
    /\ lock' = FALSE
    /\ Goto(t, "done")
    /\ UNCHANGED <<start, svars, dvars, pvars, xvars>>

\* close: session_id.store(0), no lock held
T_CloseStoreSid(t) ==
    /\ At(t, "close", "start")
    /\ session' = [session EXCEPT !.session_id = 0]
    /\ Goto(t, "c_ctr")
    /\ UNCHANGED <<lock, start, svars, dvars, pvars, xvars>>

\* close: reply_counter.store(INITIAL_REPLY_ID), no lock held
T_CloseStoreCtr(t) ==
    /\ At(t, "close", "c_ctr")
    /\ session' = [session EXCEPT !.reply_counter = INITIAL_REPLY_ID]
    /\ Goto(t, "c_state")
    /\ UNCHANGED <<lock, start, svars, dvars, pvars, xvars>>

\* close: *state.write() = Disconnected (the lock taken, written and dropped)
T_CloseSetState(t) ==
    /\ At(t, "close", "c_state")
    /\ ~lock
    /\ session' = [session EXCEPT !.state = "Disconnected"]
    /\ Goto(t, "done")
    /\ UNCHANGED <<lock, start, svars, dvars, pvars, xvars>>

\* next_reply_id: current = reply_counter.fetch_add(1)
T_NextFetchAdd(t) ==
    /\ At(t, "next_reply_id", "start")
    /\ session' = [session EXCEPT !.reply_counter = (session.reply_counter + 1) % U16]
    /\ thr' = [thr EXCEPT ![t].ret = session.reply_counter,
                          ![t].pc = IF session.reply_counter >= 65535
                                    THEN "n_store" ELSE "done"]
    /\ UNCHANGED <<lock, start, svars, dvars, pvars, xvars>>

\* next_reply_id: reply_counter.store(0) after 65535 was fetched
T_NextStore(t) ==
    /\ At(t, "next_reply_id", "n_store")
    /\ session' = [session EXCEPT !.reply_counter = 0]
    /\ Goto(t, "done")
    /\ UNCHANGED <<lock, start, svars, dvars, pvars, xvars>>

ConcNext ==
    \E t \in Threads :
        \/ T_InitLock(t)
        \/ T_InitStoreSid(t)
        \/ T_InitStoreCtr(t)
        \/ T_InitSetState(t)
        \/ T_AuthLock(t)
        \/ T_AuthSetState(t)
        \/ T_CloseStoreSid(t)
        \/ T_CloseStoreCtr(t)
        \/ T_CloseSetState(t)
        \/ T_NextFetchAdd(t)
        \/ T_NextStore(t)

ConcSpec == ConcInit /\ [][ConcNext]_vars

\* the Session a call leaves when it runs alone
ApplyCall(s, c) ==
    CASE c.op = "initialize"    -> initialize(s, c.arg).s
      [] c.op = "authenticate"  -> authenticate(s).s
      [] c.op = "close"         -> close(s)
      [] c.op = "next_reply_id" -> next_reply_id(s).s
      [] OTHER                  -> s

RECURSIVE ApplyOrder(_, _, _)
ApplyOrder(s, order, i) ==
    IF i > Len(order) THEN s
    ELSE ApplyOrder(ApplyCall(s, thr[order[i]]), order, i + 1)

\* the orders in which the threads' calls can run one after another
Orders ==
    {o \in [1..NThreads -> Threads] :
        \A i, j \in 1..NThreads : i # j => o[i] # o[j]}

SerialResults == {ApplyOrder(start, o, 1) : o \in Orders}

AllDone == \A t \in Threads : thr[t].pc = "done"

OnlyStateCalls ==
    \A t \in Threads : thr[t].op \in {"initialize", "authenticate", "close"}

\* ---------------------------------------------------------------- concurrent reply ids
\* threads calling next_reply_id again and again on handles of one Session

RaceInit ==
    /\ start \in StartSessions
    /\ session = start
    /\ lock = FALSE
    /\ thr = [t \in Threads |-> Idle]
    /\ NoDriver
    /\ DeviceNew
    /\ password = U32Of(0, 0)
    /\ NoCodec
    /\ NoExtra

RaceFrame == UNCHANGED <<lock, start, last, assigned, dvars, pvars, xvars>>

\* next_reply_id called by a thread that is in no call: current =
\* reply_counter.fetch_add(1), the value the call will return (kept in ids in the
\* order the fetches happen)
R_FetchAdd(t) ==
    /\ thr[t].pc = "done"
    /\ Len(ids) < MaxCalls
    /\ session' = [session EXCEPT !.reply_counter = (session.reply_counter + 1) % U16]
    /\ thr' = [thr EXCEPT ![t].op = "next_reply_id",
                          ![t].ret = session.reply_counter,
                          ![t].pc = IF session.reply_counter >= 65535
                                    THEN "n_store" ELSE "done"]
    /\ ids' = Append(ids, session.reply_counter)
    /\ RaceFrame

\* next_reply_id: reply_counter.store(0) after 65535 was fetched, then the return
R_Store(t) ==
    /\ At(t, "next_reply_id", "n_store")
    /\ session' = [session EXCEPT !.reply_counter = 0]
    /\ Goto(t, "done")
    /\ UNCHANGED ids
    /\ RaceFrame

RaceNext ==
    \/ \E t \in Threads : R_FetchAdd(t)
    \/ \E t \in Threads : R_Store(t)

RaceSpec == RaceInit /\ [][RaceNext]_vars

\* ---------------------------------------------------------------- transport (tcp.rs, udp.rs)

\* how TcpStream::connect / UdpSocket::bind + connect can end
ConnectOutcomes == {"Ok", "InvalidAddress", "ConnectionTimeout", "Io"}

\* how UdpTransport::connect's resolve, bind and connect can end
UdpConnectOutcomes == {"Ok", "InvalidAddress", "Io"}

\* how write_all + flush / socket.send can end
SendOutcomes == {"Ok", "Io"}

\* put_u32_le of a length
put_u32_le(n) ==
    <<n % 256, (n \div 256) % 256, (n \div 65536) % 256, n \div 16777216>>

\* a plausible slip: the length written as 16 bits
wrap_tcp_packet_u16(data) ==
    to_le_bytes(20560) \o to_le_bytes(33394) \o to_le_bytes(Len(data)) \o data

\* TcpTransport::wrap_tcp_packet: 0x5050, 0x8272, the length, the data
wrap_tcp_packet(data) ==
    to_le_bytes(20560) \o to_le_bytes(33394) \o put_u32_le(Len(data)) \o data

\* a plausible slip: only the first magic word tested
unwrap_tcp_packet_magic1(data) ==
    IF Len(data) < 8 THEN data
    ELSE IF from_le_bytes(data[1], data[2]) = 20560
         THEN SubSeq(data, 9, Len(data))
         ELSE data

\* TcpTransport::unwrap_tcp_packet (always Ok)
unwrap_tcp_packet(data) ==
    IF Len(data) < 8 THEN data
    ELSE LET magic1 == from_le_bytes(data[1], data[2])
             magic2 == from_le_bytes(data[3], data[4])
         IN  IF magic1 = 20560 /\ magic2 = 33394
             THEN SubSeq(data, 9, Len(data))
             ELSE data

\* a plausible slip: connect on a held socket replaces it
transport_connect_again(connected, outcome) ==
    IF outcome # "Ok" THEN [ok |-> FALSE, err |-> outcome, connected |-> connected]
    ELSE [ok |-> TRUE, err |-> "None", connected |-> TRUE]

\* Transport::connect: refused when a socket is held, else as the network decides
transport_connect(connected, outcome) ==
    IF connected THEN [ok |-> FALSE, err |-> "AlreadyConnected", connected |-> TRUE]
    ELSE IF outcome # "Ok" THEN [ok |-> FALSE, err |-> outcome, connected |-> FALSE]
    ELSE [ok |-> TRUE, err |-> "None", connected |-> TRUE]

\* TcpTransport::send, the bytes given to write_all: the data in the TCP wrapper
\* when use_tcp_wrapper is set, else the data as given
send_data(wrapper, data) == IF wrapper THEN wrap_tcp_packet(data) ELSE data

\* Transport::send, its result: NotConnected with no stream, else as the write
\* ends (what it writes is send_data for TCP, the data itself for UDP)
transport_send(connected, outcome) ==
    IF ~connected THEN [ok |-> FALSE, err |-> "NotConnected"]
    ELSE IF outcome # "Ok" THEN [ok |-> FALSE, err |-> outcome]
    ELSE [ok |-> TRUE, err |-> "None"]

\* how a read can end: the oldest waiting buffer when there is one, else the
\* timeout firing, a zero-length read, or an I/O error
ReadOutcomes(queue) ==
    IF queue # <<>> THEN {[kind |-> "Data", buf |-> Head(queue)]}
    ELSE {[kind |-> k, buf |-> <<>>] : k \in {"ReadTimeout", "ConnectionClosed", "Io"}}

\* TcpTransport::receive: what was read, through unwrap_tcp_packet when
\* use_tcp_wrapper is set
transport_receive(connected, wrapper, outcome) ==
    IF ~connected THEN [ok |-> FALSE, err |-> "NotConnected", buf |-> <<>>]
    ELSE IF outcome.kind # "Data" THEN [ok |-> FALSE, err |-> outcome.kind, buf |-> <<>>]
    ELSE [ok |-> TRUE, err |-> "None",
          buf |-> IF wrapper THEN unwrap_tcp_packet(outcome.buf) ELSE outcome.buf]

\* a plausible slip: the stream shut down but left in place
transport_disconnect_keeps(connected) ==
    [ok |-> TRUE, err |-> "None", connected |-> connected]

\* TcpTransport::disconnect: the stream taken and shut down, always Ok
transport_disconnect(connected) == [ok |-> TRUE, err |-> "None", connected |-> FALSE]

\* UdpTransport::connect
udp_connect(connected, outcome) ==
    IF connected THEN [ok |-> FALSE, err |-> "AlreadyConnected", connected |-> TRUE]
    ELSE IF outcome # "Ok" THEN [ok |-> FALSE, err |-> outcome, connected |-> FALSE]
    ELSE [ok |-> TRUE, err |-> "None", connected |-> TRUE]

\* UdpTransport::send
udp_send(connected, outcome) ==
    IF ~connected THEN [ok |-> FALSE, err |-> "NotConnected"]
    ELSE IF outcome # "Ok" THEN [ok |-> FALSE, err |-> outcome]
    ELSE [ok |-> TRUE, err |-> "None"]

\* UdpTransport::receive
udp_receive(connected, outcome) ==
    IF ~connected THEN [ok |-> FALSE, err |-> "NotConnected", buf |-> <<>>]
    ELSE IF outcome.kind # "Data" THEN [ok |-> FALSE, err |-> outcome.kind, buf |-> <<>>]
    ELSE [ok |-> TRUE, err |-> "None", buf |-> outcome.buf]

\* UdpTransport::disconnect: the socket taken and dropped, always Ok
udp_disconnect(connected) == [ok |-> TRUE, err |-> "None", connected |-> FALSE]

\* ---------------------------------------------------------------- device.rs

\* the ticks argument connect gives make_commkey
AUTH_TICKS == 50

\* Device::is_connected
device_is_connected(s, connected) == is_connected(s) /\ connected

\* a plausible slip: only the transport asked
ensure_connected_transport(s, connected) ==
    IF ~connected
    THEN [ok |-> FALSE, err |-> "NotConnected"]
    ELSE [ok |-> TRUE, err |-> "None"]

\* Device::ensure_connected
ensure_connected(s, connected) ==
    IF ~device_is_connected(s, connected)
    THEN [ok |-> FALSE, err |-> "NotConnected"]
    ELSE [ok |-> TRUE, err |-> "None"]

\* a plausible slip: the counter read for the packet but not advanced
create_packet_stale(s, command, payload) ==
    [packet |-> with_payload(command, get_session_id(s), s.reply_counter, payload),
     s |-> s]

\* Device::create_packet: the session id read, then one reply id taken
create_packet(s, command, payload) ==
    LET sid == get_session_id(s)
        nxt == next_reply_id(s)
    IN  [packet |-> with_payload(command, sid, nxt.ret, payload), s |-> nxt.s]

\* a plausible slip: a decoded packet refused unless it carries the reply id of a
\* Session's first request
receive_packet_paired(connected, wrapper, outcome) ==
    LET got == transport_receive(connected, wrapper, outcome)
    IN  IF ~got.ok THEN [ok |-> FALSE, err |-> got.err, packet |-> NoPacket]
        ELSE LET d == decode(got.buf)
             IN  IF d.ok /\ d.packet.reply_id # INITIAL_REPLY_ID
                 THEN [ok |-> FALSE, err |-> "InvalidReplyId", packet |-> NoPacket]
                 ELSE [ok |-> d.ok, err |-> d.err, packet |-> d.packet]

\* a receive_packet that hands a failed read on as if a packet had come
receive_packet_swallow(connected, wrapper, outcome) ==
    LET got == transport_receive(connected, wrapper, outcome)
    IN  IF ~got.ok THEN [ok |-> TRUE, err |-> got.err, packet |-> NoPacket]
        ELSE LET d == decode(got.buf)
             IN  [ok |-> d.ok, err |-> d.err, packet |-> d.packet]

\* Device::receive_packet: transport.receive, then Packet::decode
receive_packet(connected, wrapper, outcome) ==
    LET got == transport_receive(connected, wrapper, outcome)
    IN  IF ~got.ok THEN [ok |-> FALSE, err |-> got.err, packet |-> NoPacket]
        ELSE LET d == decode(got.buf)
             IN  [ok |-> d.ok, err |-> d.err, packet |-> d.packet]

\* the commands of the calls with and without an awaited response
AwaitedCalls ==
    {[name |-> "get_device_info", command |-> "GetVersion"],
     [name |-> "enable_device", command |-> "EnableDevice"],
     [name |-> "disable_device", command |-> "DisableDevice"]}

UnawaitedCalls ==
    {[name |-> "restart", command |-> "Restart"],
     [name |-> "power_off", command |-> "PowerOff"]}

\* reply ids taken since the Session was last initialized or closed
IdsTaken(s) == (s.reply_counter + U16 - INITIAL_REPLY_ID) % U16

\* what is left in the socket after a read
AfterRead(queue, outcome) == IF outcome.kind = "Data" THEN Tail(queue) ELSE queue

DeviceInit ==
    /\ session = SessionNew
    /\ DeviceNew
    /\ password \in Passwords
    /\ NoDriver
    /\ NoThreads
    /\ NoCodec
    /\ NoExtra

\* the device answers a request it was sent, at most once per request; the answer
\* waits in the socket until the Device reads it
Deliver(b) ==
    /\ stream
    /\ owed > 0
    /\ Len(rx) < MaxRx
    /\ rx' = Append(rx, b)
    /\ owed' = owed - 1
    /\ UNCHANGED <<session, stream, password, pc, call, res, tx, rxlog, unauth, link,
                   svars, cvars, pvars, xvars>>

\* a request reached the wire
Wire(n, sent) == IF sent THEN n + 1 ELSE n

\* the bound on the requests followed while unanswered: a step that writes one
\* more is taken only while fewer than MaxOwed wait at the device
Room(n, sent) == sent => n < MaxOwed

Return(r) ==
    /\ pc' = "idle"
    /\ res' = r

\* Device::connect up to its first receive: transport.connect, then the Connect
\* packet (session id 0, reply id 0) sent
ConnectStart(co, so) ==
    LET tc     == transport_connect(stream, co)
        packet == PacketNew("Connect", 0, 0)
        snd    == transport_send(tc.connected, so)
    IN  /\ pc = "idle"
        /\ call' = "connect"
        /\ rxlog' = <<>>
        /\ stream' = tc.connected
        /\ IF ~tc.ok
           THEN /\ Return(ResErr(tc.err, "transport.connect"))
                /\ tx' = <<>>
           ELSE IF ~snd.ok
           THEN /\ Return(ResErr(snd.err, "send"))
                /\ tx' = <<>>
           ELSE /\ pc' = "connect_recv"
                /\ tx' = <<send_data(use_tcp_wrapper, encode(packet))>>
                /\ UNCHANGED res
        /\ Room(owed, tc.ok /\ snd.ok)
        /\ owed' = Wire(owed, tc.ok /\ snd.ok)
        /\ link' = IF ~tc.ok THEN link ELSE IF snd.ok THEN Sent(NewLink) ELSE NewLink
        /\ UNCHANGED <<session, password, rx, unauth, svars, cvars, pvars, xvars>>

\* Device::connect from the response to Connect: AckOk initializes the Session,
\* AckUnauth sends the Auth packet, anything else is an error
ConnectRecv(out, so) ==
    LET response == receive_packet(stream, use_tcp_wrapper, out)
        sid      == response.packet.session_id
        init     == initialize(session, sid)
        auth_key == make_commkey(password, sid, AUTH_TICKS)
        auth_packet == with_payload("Auth", sid, 0, auth_key)
        snd      == transport_send(stream, so)
    IN  /\ pc = "connect_recv"
        /\ rx' = AfterRead(rx, out)
        /\ rxlog' = Append(rxlog, response)
        /\ IF ~response.ok
           THEN /\ Return(ResErr(response.err, "receive"))
                /\ UNCHANGED <<session, tx, unauth>>
           ELSE IF response.packet.command = "AckOk"
           THEN /\ Return(IF init.ok THEN ResOk ELSE ResErr(init.err, "initialize"))
                /\ session' = init.s
                /\ UNCHANGED <<tx, unauth>>
           ELSE IF response.packet.command = "AckUnauth"
           THEN /\ unauth' = sid
                /\ IF snd.ok
                   THEN /\ tx' = Append(tx, send_data(use_tcp_wrapper,
                                                        encode(auth_packet)))
                        /\ pc' = "auth_recv"
                        /\ UNCHANGED res
                   ELSE /\ Return(ResErr(snd.err, "send"))
                        /\ UNCHANGED tx
                /\ UNCHANGED session
           ELSE IF response.packet.command = "AckError"
           THEN /\ Return(ResErr("InvalidResponse", "Device returned error"))
                /\ UNCHANGED <<session, tx, unauth>>
           ELSE /\ Return(ResErrCommand("InvalidResponse", "Unexpected response: ",
                                        response.packet.command))
                /\ UNCHANGED <<session, tx, unauth>>
        /\ Room(owed, response.ok /\ response.packet.command = "AckUnauth" /\ snd.ok)
        /\ owed' = Wire(owed, response.ok /\ response.packet.command = "AckUnauth"
                                /\ snd.ok)
        /\ link' = IF response.ok /\ response.packet.command = "AckUnauth" /\ snd.ok
                   THEN Sent(Awaited(link, out.kind = "Data"))
                   ELSE Awaited(link, out.kind = "Data")
        /\ ids' = IF response.ok /\ response.packet.command = "AckOk" /\ init.ok
                  THEN <<>> ELSE ids
        /\ UNCHANGED <<stream, password, call, last, assigned, cvars, pvars, xvars>>

\* Device::connect from the response to Auth
AuthRecv(out) ==
    LET auth_response == receive_packet(stream, use_tcp_wrapper, out)
        sid  == auth_response.packet.session_id
        init == initialize(session, sid)
    IN  /\ pc = "auth_recv"
        /\ rx' = AfterRead(rx, out)
        /\ rxlog' = Append(rxlog, auth_response)
        /\ IF ~auth_response.ok
           THEN /\ Return(ResErr(auth_response.err, "receive"))
                /\ UNCHANGED session
           ELSE IF auth_response.packet.command = "AckOk"
           THEN /\ Return(IF init.ok THEN ResOk ELSE ResErr(init.err, "initialize"))
                /\ session' = init.s
           ELSE IF auth_response.packet.command = "AckError"
           THEN /\ Return(ResErr("InvalidResponse",
                                 "Authentication failed - incorrect password"))
                /\ UNCHANGED session
           ELSE /\ Return(ResErrCommand("InvalidResponse", "Unexpected auth response: ",
                                        auth_response.packet.command))
                /\ UNCHANGED session
        /\ link' = Awaited(link, out.kind = "Data")
        /\ ids' = IF auth_response.ok /\ auth_response.packet.command = "AckOk"
                     /\ init.ok
                  THEN <<>> ELSE ids
        /\ UNCHANGED <<stream, password, call, tx, unauth, owed, last, assigned, cvars,
                       pvars, xvars>>

\* Device::disconnect: nothing when not connected; else Exit sent (a failure only
\* logged), the transport closed and the Session closed; ids holds the reply ids
\* of the command packets built on the Session since it was initialized, and is
\* emptied when the Session is closed
Disconnect(so) ==
    LET cp  == create_packet(session, "Exit", <<>>)
        snd == transport_send(stream, so)
        td  == transport_disconnect(stream)
    IN  /\ pc = "idle"
        /\ call' = "disconnect"
        /\ rxlog' = <<>>
        /\ IF ~device_is_connected(session, stream)
           THEN /\ Return(ResOk)
                /\ tx' = <<>>
                /\ UNCHANGED <<session, stream, rx, owed, link, ids>>
           ELSE /\ tx' = IF snd.ok THEN <<send_data(use_tcp_wrapper, encode(cp.packet))>>
                         ELSE <<>>
                /\ link' = IF snd.ok THEN Sent(link) ELSE link
                /\ stream' = td.connected
                /\ rx' = IF td.connected THEN rx ELSE <<>>
                /\ Room(owed, td.connected /\ snd.ok)
                /\ owed' = IF td.connected THEN Wire(owed, snd.ok) ELSE 0
                /\ IF td.ok
                   THEN /\ Return(IF snd.ok THEN ResOk
                                  ELSE ResWarn("Failed to send EXIT command"))
                        /\ session' = close(cp.s)
                        /\ ids' = <<>>
                   ELSE /\ Return(ResErr(td.err, "transport.disconnect"))
                        /\ session' = cp.s
                        /\ ids' = Append(ids, cp.packet.reply_id)
        /\ UNCHANGED <<password, unauth, last, assigned, cvars, pvars, xvars>>

\* get_device_info / enable_device / disable_device up to the receive
CommandStart(c, so) ==
    LET chk == ensure_connected(session, stream)
        cp  == create_packet(session, c.command, <<>>)
        snd == transport_send(stream, so)
    IN  /\ pc = "idle"
        /\ IdsTaken(session) < MaxCommands
        /\ call' = c.name
        /\ rxlog' = <<>>
        /\ IF ~chk.ok
           THEN /\ Return(ResErr(chk.err, "ensure_connected"))
                /\ tx' = <<>>
                /\ UNCHANGED <<session, ids>>
           ELSE /\ session' = cp.s
                /\ ids' = Append(ids, cp.packet.reply_id)
                /\ IF ~snd.ok
                   THEN /\ Return(ResErr(snd.err, "send"))
                        /\ tx' = <<>>
                   ELSE /\ pc' = "command_recv"
                        /\ tx' = <<send_data(use_tcp_wrapper, encode(cp.packet))>>
                        /\ UNCHANGED res
        /\ Room(owed, chk.ok /\ snd.ok)
        /\ owed' = Wire(owed, chk.ok /\ snd.ok)
        /\ link' = IF chk.ok /\ snd.ok THEN Sent(link) ELSE link
        /\ UNCHANGED <<stream, password, rx, unauth, last, assigned, cvars, pvars,
                       xvars>>

\* get_device_info / enable_device / disable_device from the response
CommandRecv(out) ==
    LET response == receive_packet(stream, use_tcp_wrapper, out)
    IN  /\ pc = "command_recv"
        /\ rx' = AfterRead(rx, out)
        /\ rxlog' = Append(rxlog, response)
        /\ IF ~response.ok
           THEN Return(ResErr(response.err, "receive"))
           ELSE IF is_success(response.packet.command)
           THEN Return(ResOk)
           ELSE Return(ResErr("InvalidResponse", "Failed"))
        /\ link' = Awaited(link, out.kind = "Data")
        /\ UNCHANGED <<session, stream, password, call, tx, unauth, owed, svars, cvars,
                       pvars, xvars>>

\* restart / power_off: the packet sent, no response awaited, the Session closed
Unawaited(c, so) ==
    LET chk == ensure_connected(session, stream)
        cp  == create_packet(session, c.command, <<>>)
        snd == transport_send(stream, so)
    IN  /\ pc = "idle"
        /\ IdsTaken(session) < MaxCommands
        /\ call' = c.name
        /\ rxlog' = <<>>
        /\ IF ~chk.ok
           THEN /\ Return(ResErr(chk.err, "ensure_connected"))
                /\ tx' = <<>>
                /\ UNCHANGED session
           ELSE IF ~snd.ok
           THEN /\ Return(ResErr(snd.err, "send"))
                /\ tx' = <<>>
                /\ session' = cp.s
           ELSE /\ Return(ResOk)
                /\ tx' = <<send_data(use_tcp_wrapper, encode(cp.packet))>>
                /\ session' = close(cp.s)
        /\ ids' = IF ~chk.ok THEN ids
                  ELSE IF ~snd.ok THEN Append(ids, cp.packet.reply_id)
                  ELSE <<>>
        /\ Room(owed, chk.ok /\ snd.ok)
        /\ owed' = Wire(owed, chk.ok /\ snd.ok)
        /\ link' = IF chk.ok /\ snd.ok THEN Sent(link) ELSE link
        /\ UNCHANGED <<stream, password, rx, unauth, last, assigned, cvars, pvars,
                       xvars>>

DeviceNext ==
    \/ \E b \in Responses : Deliver(b)
    \/ \E co \in ConnectOutcomes, so \in SendOutcomes : ConnectStart(co, so)
    \/ \E out \in ReadOutcomes(rx), so \in SendOutcomes : ConnectRecv(out, so)
    \/ \E out \in ReadOutcomes(rx) : AuthRecv(out)
    \/ \E so \in SendOutcomes : Disconnect(so)
    \/ \E c \in AwaitedCalls, so \in SendOutcomes : CommandStart(c, so)
    \/ \E out \in ReadOutcomes(rx) : CommandRecv(out)
    \/ \E c \in UnawaitedCalls, so \in SendOutcomes : Unawaited(c, so)

DeviceSpec == DeviceInit /\ [][DeviceNext]_vars

\* ---------------------------------------------------------------- codec
\* Packet::encode, Packet::decode and checksum::calculate applied to bounded inputs

RECURSIVE Payloads(_)
Payloads(n) ==
    IF n = 0 THEN {<<>>}
    ELSE Payloads(n - 1)
         \cup {Append(q, b) : q \in {r \in Payloads(n - 1) : Len(r) = n - 1},
                              b \in PayloadBytes}

CodecPackets ==
    {with_payload(c, s, r, q) : c \in Commands, s \in CodecSessionIds,
                                r \in CodecReplyIds, q \in Payloads(MaxPayload)}

\* the checksum field of a buffer (bytes 2-3) set to v
SetChecksumField(b, v) == [b EXCEPT ![3] = v % 256, ![4] = v \div 256]

\* the command field of a buffer (bytes 0-1) set to code
SetCommandField(b, code) == [b EXCEPT ![1] = code % 256, ![2] = code \div 256]

\* values to put in place of the checksum field of the buffer at hand
OtherChecksums ==
    IF Len(wire_buf) < HEADER_SIZE THEN {}
    ELSE LET c == from_le_bytes(wire_buf[3], wire_buf[4])
         IN  {0, 65535, (c + 1) % U16, (c + 256) % U16} \ {c}

CodecInit ==
    /\ session = SessionNew
    /\ NoDriver
    /\ NoThreads
    /\ DeviceNew
    /\ password = U32Of(0, 0)
    /\ packet_in \in CodecPackets
    /\ wire_buf = <<>>
    /\ decoded = NoDecode
    /\ calculated = 0
    /\ codec_op = "none"
    /\ NoExtra

CodecFrame == UNCHANGED <<session, svars, cvars, dvars, packet_in, xvars>>

\* checksum::calculate on the packet's fields
Calculate ==
    /\ codec_op = "none"
    /\ calculated' = calculate(to_code(packet_in.command), packet_in.session_id,
                               packet_in.reply_id, packet_in.payload)
    /\ codec_op' = "calculate"
    /\ UNCHANGED <<wire_buf, decoded>>
    /\ CodecFrame

\* Packet::encode
Encode ==
    /\ codec_op = "none"
    /\ wire_buf' = encode(packet_in)
    /\ codec_op' = "encode"
    /\ UNCHANGED <<decoded, calculated>>
    /\ CodecFrame

\* the encoded packet's checksum field replaced by another value
AlterChecksum(v) ==
    /\ codec_op = "encode"
    /\ decoded = NoDecode
    /\ wire_buf' = SetChecksumField(wire_buf, v)
    /\ codec_op' = "alter"
    /\ UNCHANGED <<decoded, calculated>>
    /\ CodecFrame

\* the encoded packet's command field replaced by another code
AlterCommand(code) ==
    /\ codec_op = "encode"
    /\ decoded = NoDecode
    /\ code # from_le_bytes(wire_buf[1], wire_buf[2])
    /\ wire_buf' = SetCommandField(wire_buf, code)
    /\ codec_op' = "recode"
    /\ UNCHANGED <<decoded, calculated>>
    /\ CodecFrame

\* the encoded packet cut to its first n bytes, n below the header size
Truncate(n) ==
    /\ codec_op = "encode"
    /\ decoded = NoDecode
    /\ wire_buf' = SubSeq(wire_buf, 1, n)
    /\ codec_op' = "truncate"
    /\ UNCHANGED <<decoded, calculated>>
    /\ CodecFrame

\* Packet::decode
Decode ==
    /\ codec_op \in {"encode", "alter", "recode", "truncate"}
    /\ decoded = NoDecode
    /\ decoded' = decode(wire_buf)
    /\ UNCHANGED <<wire_buf, calculated, codec_op>>
    /\ CodecFrame

CodecNext ==
    \/ Calculate
    \/ Encode
    \/ \E v \in OtherChecksums : AlterChecksum(v)
    \/ \E code \in OtherCodes : AlterCommand(code)
    \/ \E n \in 0..7 : Truncate(n)
    \/ Decode

CodecSpec == CodecInit /\ [][CodecNext]_vars

\* ---------------------------------------------------------------- frame size
\* Packet::with_payload and Packet::encode on payloads at and around the maximum

\* a payload of n bytes, all b
Filled(n, b) == [i \in 1..n |-> b]

LimitSizes == {0, 1, MAX_PAYLOAD_SIZE, MAX_PAYLOAD_SIZE + 1}

LimitPackets ==
    {with_payload(c, s, r, Filled(n, b)) :
        c \in {"Connect", "Auth"}, s \in CodecSessionIds, r \in CodecReplyIds,
        n \in LimitSizes, b \in {0, 255}}

LimitInit ==
    /\ session = SessionNew
    /\ NoDriver
    /\ NoThreads
    /\ DeviceNew
    /\ password = U32Of(0, 0)
    /\ packet_in \in LimitPackets
    /\ wire_buf = <<>>
    /\ decoded = NoDecode
    /\ calculated = 0
    /\ codec_op = "none"
    /\ NoExtra

LimitNext ==
    \/ Encode
    \/ Decode

LimitSpec == LimitInit /\ [][LimitNext]_vars

\* ---------------------------------------------------------------- pure functions
\* checksum, auth key, command registry and TCP wrapper applied to bounded inputs

\* Packet::is_response
packet_is_response(p) ==
    p.command \in {"AckOk", "AckError", "AckData", "AckRetry", "AckRepeat",
                   "AckUnauth", "AckUnknown", "AckErrorCmd", "AckErrorInit",
                   "AckErrorData"}

\* Packet::is_success
packet_is_success(p) == p.command \in {"AckOk", "AckData"}

\* Packet::is_error
packet_is_error(p) ==
    p.command \in {"AckError", "AckErrorCmd", "AckErrorInit", "AckErrorData"}

\* buffers given to unwrap_tcp_packet: wrapped data with any declared length,
\* the same with one magic byte changed, their prefixes, and bare data
WrappedBuffers ==
    {<<80, 80, 114, 130>> \o l \o q : l \in LengthFields, q \in Payloads(MaxPayload)}

UnwrapBuffers ==
    WrappedBuffers
    \cup {[b EXCEPT ![i] = 0] : b \in WrappedBuffers, i \in 1..4}
    \cup {SubSeq(b, 1, n) : b \in WrappedBuffers, n \in 0..7}
    \cup Payloads(MaxPayload)

CalculateInputs ==
    {[f |-> "calculate", done |-> FALSE, c1 |-> c1, c2 |-> c2, s1 |-> s1,
      s2 |-> s2, r |-> r, p |-> q] :
        c1 \in Words, c2 \in Words, s1 \in Words, s2 \in Words, r \in ReplyWords,
        q \in Payloads(MaxPayload)}

VerifyInputs ==
    {[f |-> "verify", done |-> FALSE, c |-> c, s |-> s, r |-> r, p |-> q,
      how |-> h] :
        c \in Words, s \in Words, r \in ReplyWords, q \in Payloads(MaxPayload),
        h \in {"same", "plus1", "zero", "max"}}

CommkeyInputs ==
    {[f |-> "make_commkey", done |-> FALSE, p1 |-> p1, p2 |-> p2, s1 |-> s1,
      s2 |-> s2, t |-> k] :
        p1 \in KeyPasswords, p2 \in KeyPasswords, s1 \in KeySessionIds,
        s2 \in KeySessionIds, k \in KeyTicks}

TryFromInputs == {[f |-> "try_from", done |-> FALSE, n |-> n] : n \in 0..(U16 - 1)}

CommandInputs == {[f |-> "command", done |-> FALSE, c |-> c] : c \in Commands}

WrapInputs ==
    {[f |-> "wrap", done |-> FALSE, d |-> q] : q \in Payloads(MaxPayload)}

UnwrapInputs == {[f |-> "unwrap", done |-> FALSE, b |-> b] : b \in UnwrapBuffers}

PureInit ==
    /\ session = SessionNew
    /\ NoDriver
    /\ NoThreads
    /\ DeviceNew
    /\ password = U32Of(0, 0)
    /\ NoCodec
    /\ proto = "tcp"
    /\ use_tcp_wrapper = FALSE
    /\ \/ fn_in \in CalculateInputs
       \/ fn_in \in VerifyInputs
       \/ fn_in \in CommkeyInputs
       \/ fn_in \in TryFromInputs
       \/ fn_in \in CommandInputs
       \/ fn_in \in WrapInputs
       \/ fn_in \in UnwrapInputs
    /\ fn_out = 0
    /\ inners = <<>>
    /\ handles = <<>>
    /\ tlast = NoTransportCall

\* the function named by fn_in applied: fn_out takes its result
Applied(result) ==
    /\ ~fn_in.done
    /\ fn_in' = [fn_in EXCEPT !.done = TRUE]
    /\ fn_out' = result
    /\ UNCHANGED <<session, svars, cvars, dvars, pvars, proto, use_tcp_wrapper,
                 inners, handles, tlast>>

\* checksum::calculate on the inputs, on them with the other command, and on
\* them with the other session id
ApplyCalculate ==
    /\ fn_in.f = "calculate"
    /\ Applied([base |-> calculate(fn_in.c1, fn_in.s1, fn_in.r, fn_in.p),
             cmd  |-> calculate(fn_in.c2, fn_in.s1, fn_in.r, fn_in.p),
             sid  |-> calculate(fn_in.c1, fn_in.s2, fn_in.r, fn_in.p)])

\* the value handed to verify as expected
Expected(how, c) ==
    CASE how = "same"  -> c
      [] how = "plus1" -> (c + 1) % U16
      [] how = "zero"  -> 0
      [] how = "max"   -> U16 - 1

\* checksum::verify
ApplyVerify ==
    /\ fn_in.f = "verify"
    /\ Applied(LET e == Expected(fn_in.how,
                              calculate(fn_in.c, fn_in.s, fn_in.r, fn_in.p))
            IN  [e |-> e, ok |-> verify(fn_in.c, fn_in.s, fn_in.r, fn_in.p, e)])

\* make_commkey on the inputs, on them with the other password, and on them
\* with the other session id
ApplyCommkey ==
    /\ fn_in.f = "make_commkey"
    /\ Applied([base |-> make_commkey(fn_in.p1, fn_in.s1, fn_in.t),
             pwd  |-> make_commkey(fn_in.p2, fn_in.s1, fn_in.t),
             sid  |-> make_commkey(fn_in.p1, fn_in.s2, fn_in.t)])

\* Command::try_from
ApplyTryFrom ==
    /\ fn_in.f = "try_from"
    /\ Applied(try_from(fn_in.n))

\* u16::from(c), Command::try_from of it, and the predicates of c and of a
\* packet carrying c
ApplyCommand ==
    /\ fn_in.f = "command"
    /\ Applied(LET c == fn_in.c
                p == PacketNew(c, 0, 0)
            IN  [code |-> to_code(c), back |-> try_from(to_code(c)),
                 request |-> is_request(c), response |-> is_response(c),
                 success |-> is_success(c), error |-> is_error(c),
                 p_response |-> packet_is_response(p),
                 p_success |-> packet_is_success(p),
                 p_error |-> packet_is_error(p)])

\* wrap_tcp_packet, and unwrap_tcp_packet of its result
ApplyWrap ==
    /\ fn_in.f = "wrap"
    /\ Applied([wrapped |-> wrap_tcp_packet(fn_in.d),
             unwrapped |-> unwrap_tcp_packet(wrap_tcp_packet(fn_in.d))])

\* unwrap_tcp_packet
ApplyUnwrap ==
    /\ fn_in.f = "unwrap"
    /\ Applied(unwrap_tcp_packet(fn_in.b))

PureNext ==
    \/ ApplyCalculate
    \/ ApplyVerify
    \/ ApplyCommkey
    \/ ApplyTryFrom
    \/ ApplyCommand
    \/ ApplyWrap
    \/ ApplyUnwrap

PureSpec == PureInit /\ [][PureNext]_vars

\* ---------------------------------------------------------------- transport calls
\* connect, send, receive and disconnect called on a TcpTransport or UdpTransport

TransportInit ==
    /\ session = SessionNew
    /\ NoDriver
    /\ NoThreads
    /\ DeviceNew
    /\ password = U32Of(0, 0)
    /\ NoCodec
    /\ proto \in {"tcp", "udp"}
    /\ use_tcp_wrapper \in (IF proto = "tcp" THEN BOOLEAN ELSE {FALSE})
    /\ fn_in = [f |-> "none", done |-> FALSE]
    /\ fn_out = 0
    /\ inners = <<>>
    /\ handles = <<>>
    /\ tlast = NoTransportCall

\* what the calls are asked to send: a Connect packet and an empty buffer
SendData == {encode(PacketNew("Connect", 0, 0)), <<>>}

\* what arrives in the socket: a response bare and in the TCP wrapper, a wrapper
\* around nothing, one whose declared length is not that of what follows, and
\* buffers shorter than a wrapper
TransportBuffers ==
    {encode(PacketNew("AckOk", 2005, 0)),
     wrap_tcp_packet(encode(PacketNew("AckOk", 2005, 0))),
     wrap_tcp_packet(<<>>),
     <<80, 80, 114, 130, 99, 0, 0, 0, 1, 2, 3>>,
     <<80, 80, 114, 130, 8, 0, 0>>,
     <<208, 7, 0>>}

TransportFrame ==
    UNCHANGED <<session, svars, cvars, pvars, password, pc, call, res, tx, rxlog,
                unauth, link, proto, use_tcp_wrapper, fn_in, fn_out, inners,
                handles>>

\* Transport::connect
TrConnect(co) ==
    LET r == IF proto = "tcp" THEN transport_connect(stream, co)
             ELSE udp_connect(stream, co)
    IN  /\ proto = "udp" => co \in UdpConnectOutcomes
        /\ stream' = r.connected
        /\ tlast' = [op |-> "connect", was |-> stream, net |-> co, ok |-> r.ok,
                     err |-> r.err, data |-> <<>>]
        /\ UNCHANGED <<rx, owed>>
        /\ TransportFrame

\* Transport::send
TrSend(d, so) ==
    LET r == IF proto = "tcp" THEN transport_send(stream, so) ELSE udp_send(stream, so)
        w == IF ~r.ok THEN <<>>
             ELSE IF proto = "tcp" THEN send_data(use_tcp_wrapper, d) ELSE d
    IN  /\ tlast' = [op |-> "send", was |-> stream, net |-> so, ok |-> r.ok,
                     err |-> r.err, data |-> w]
        /\ Room(owed, r.ok)
        /\ owed' = Wire(owed, r.ok)
        /\ UNCHANGED <<stream, rx>>
        /\ TransportFrame

\* Transport::receive
TrReceive(out) ==
    LET r == IF proto = "tcp" THEN transport_receive(stream, use_tcp_wrapper, out)
             ELSE udp_receive(stream, out)
    IN  /\ tlast' = [op |-> "receive", was |-> stream, net |-> out.kind, ok |-> r.ok,
                     err |-> r.err, data |-> r.buf]
        /\ rx' = IF stream THEN AfterRead(rx, out) ELSE rx
        /\ UNCHANGED <<stream, owed>>
        /\ TransportFrame

\* Transport::disconnect
TrDisconnect ==
    LET r == IF proto = "tcp" THEN transport_disconnect(stream)
             ELSE udp_disconnect(stream)
    IN  /\ stream' = r.connected
        /\ tlast' = [op |-> "disconnect", was |-> stream, net |-> "None", ok |-> r.ok,
                     err |-> r.err, data |-> <<>>]
        /\ rx' = <<>>
        /\ owed' = 0
        /\ TransportFrame

TransportNext ==
    \/ \E co \in ConnectOutcomes : TrConnect(co)
    \/ \E d \in SendData, so \in SendOutcomes : TrSend(d, so)
    \/ \E out \in ReadOutcomes(rx) : TrReceive(out)
    \/ TrDisconnect
    \/ \E b \in TransportBuffers : Deliver(b)

TransportSpec == TransportInit /\ [][TransportNext]_vars

\* ---------------------------------------------------------------- Session handles
\* Session is a struct holding Arc<SessionInner>; handles are made by clone

\* a plausible slip: clone copies the SessionInner
session_clone_deep(heap, ref) ==
    [heap |-> Append(heap, heap[ref]), ref |-> Len(heap) + 1]

\* #[derive(Clone)] on Session: Arc::clone, a new handle on the same allocation
session_clone(heap, ref) == [heap |-> heap, ref |-> ref]

\* Session::new: one allocation and the handle on it
CloneInit ==
    /\ session = SessionNew
    /\ NoDriver
    /\ NoThreads
    /\ DeviceNew
    /\ password = U32Of(0, 0)
    /\ NoCodec
    /\ proto = "tcp"
    /\ use_tcp_wrapper = FALSE
    /\ fn_in = [f |-> "none", done |-> FALSE]
    /\ fn_out = 0
    /\ inners = <<SessionNew>>
    /\ handles = <<1>>
    /\ tlast = NoTransportCall

CloneFrame ==
    UNCHANGED <<session, ids, assigned, cvars, dvars, pvars, proto, use_tcp_wrapper,
                fn_in, fn_out, tlast>>

\* the allocation handle h points to
Inner(h) == inners[handles[h]]

\* handle h cloned
H_Clone(h) ==
    LET r == session_clone(inners, handles[h])
    IN  /\ Len(handles) < MaxHandles
        /\ inners' = r.heap
        /\ handles' = Append(handles, r.ref)
        /\ last' = [op |-> "clone", arg |-> h, pre |-> Inner(h), ok |-> TRUE,
                    err |-> "None", ret |-> 0]
        /\ CloneFrame

\* Session::initialize through handle h
H_Initialize(h, id) ==
    /\ inners' = [inners EXCEPT ![handles[h]] = initialize(@, id).s]
    /\ last' = [op |-> "initialize", arg |-> h, pre |-> Inner(h),
                ok |-> initialize(Inner(h), id).ok,
                err |-> initialize(Inner(h), id).err, ret |-> 0]
    /\ UNCHANGED handles
    /\ CloneFrame

\* Session::authenticate through handle h
H_Authenticate(h) ==
    /\ inners' = [inners EXCEPT ![handles[h]] = authenticate(@).s]
    /\ last' = [op |-> "authenticate", arg |-> h, pre |-> Inner(h),
                ok |-> authenticate(Inner(h)).ok,
                err |-> authenticate(Inner(h)).err, ret |-> 0]
    /\ UNCHANGED handles
    /\ CloneFrame

\* Session::close through handle h
H_Close(h) ==
    /\ inners' = [inners EXCEPT ![handles[h]] = close(@)]
    /\ last' = [op |-> "close", arg |-> h, pre |-> Inner(h), ok |-> TRUE,
                err |-> "None", ret |-> 0]
    /\ UNCHANGED handles
    /\ CloneFrame

\* Session::next_reply_id through handle h
H_NextReplyId(h) ==
    /\ IdsTaken(Inner(h)) < MaxCalls
    /\ inners' = [inners EXCEPT ![handles[h]] = next_reply_id(@).s]
    /\ last' = [op |-> "next_reply_id", arg |-> h, pre |-> Inner(h), ok |-> TRUE,
                err |-> "None", ret |-> next_reply_id(Inner(h)).ret]
    /\ UNCHANGED handles
    /\ CloneFrame

CloneNext ==
    \/ \E h \in DOMAIN handles : H_Clone(h)
    \/ \E h \in DOMAIN handles, id \in SessionIds : H_Initialize(h, id)
    \/ \E h \in DOMAIN handles : H_Authenticate(h)
    \/ \E h \in DOMAIN handles : H_Close(h)
    \/ \E h \in DOMAIN handles : H_NextReplyId(h)

CloneSpec == CloneInit /\ [][CloneNext]_vars

\* ================================================================ claims

\* C1: after a successful initialize, the n-th next_reply_id call (n = 0, 1, ...)
\* made with no close or initialize in between returns (65534 + n) mod 65536:
\* 65534, 65535, 0, 1, ...
C1_ReplyIdSequence ==
    session.state # "Disconnected" =>
        /\ \A n \in 1..Len(ids) : ids[n] = (65534 + (n - 1)) % 65536
        /\ (last.op = "next_reply_id" => last.ret = ids[Len(ids)])

\* C1 witness: three ids were handed out after an initialize, the third after the wrap
C1_Witness ==
    /\ session.state # "Disconnected"
    /\ Len(ids) >= 3
    /\ ids[2] = 65535
    /\ ids[3] = 0

\* C2 as stated: session_id is 0 if and only if the state is Disconnected
C2_Original ==
    (session.session_id = 0) <=> (session.state = "Disconnected")

\* C2 amended: session_id is 0 exactly when the state is Disconnected or the
\* session was connected by initialize(0)
C2_SessionIdZero ==
    (session.session_id = 0) <=> (session.state = "Disconnected" \/ assigned = 0)

\* C2 witness: a session connected with id 0, and authenticated
C2_Witness ==
    /\ session.state = "Authenticated"
    /\ session.session_id = 0

\* C3: when initialize, authenticate and close run concurrently on handles of one
\* Session, the final (state, session_id, reply_counter) is the result of running
\* those calls in some serial order; in particular the Session never ends
\* Disconnected with a non-zero session id
C3_Serializable ==
    (AllDone /\ OnlyStateCalls) =>
        /\ session \in SerialResults
        /\ (session.state = "Disconnected" => session.session_id = 0)

\* C4: the state changes only Disconnected->Connected by a successful initialize,
\* Connected->Authenticated by a successful authenticate, and to Disconnected by
\* close; next_reply_id and the read accessors never change it
C4_Transitions ==
    [][session'.state # session.state =>
          \/ /\ session.state = "Disconnected"
             /\ session'.state = "Connected"
             /\ last'.op = "initialize"
             /\ last'.ok
          \/ /\ session.state = "Connected"
             /\ session'.state = "Authenticated"
             /\ last'.op = "authenticate"
             /\ last'.ok
          \/ /\ session'.state = "Disconnected"
             /\ last'.op = "close"]_vars

\* C4 witness: a session that went Disconnected -> Connected -> Authenticated
C4_Witness ==
    /\ last.op = "authenticate"
    /\ last.ok
    /\ last.pre.state = "Connected"
    /\ session.state = "Authenticated"

\* C5: initialize(id) succeeds exactly when the state is Disconnected, leaving
\* session id id, reply counter 65534 and state Connected; otherwise it fails with
\* InvalidSessionState and leaves the Session as it was
C5_Initialize ==
    last.op = "initialize" =>
        /\ last.ok <=> last.pre.state = "Disconnected"
        /\ last.ok =>
              session = [state |-> "Connected", session_id |-> last.arg,
                         reply_counter |-> 65534]
        /\ ~last.ok => (last.err = "InvalidSessionState" /\ session = last.pre)

\* C5 witness: a second initialize, refused, on a session whose counter had moved
C5_Witness ==
    /\ last.op = "initialize"
    /\ ~last.ok
    /\ last.pre.state = "Connected"
    /\ last.pre.reply_counter = 0
    /\ last.arg # last.pre.session_id

\* C6: authenticate succeeds exactly when the state is Connected; in Disconnected
\* or Authenticated it fails with InvalidSessionState and the state is unchanged
C6_Authenticate ==
    last.op = "authenticate" =>
        /\ last.ok <=> last.pre.state = "Connected"
        /\ last.ok => session.state = "Authenticated"
        /\ ~last.ok => (last.err = "InvalidSessionState"
                        /\ session.state = last.pre.state)

\* C6 witness: authenticate refused on an Authenticated session
C6_Witness ==
    /\ last.op = "authenticate"
    /\ ~last.ok
    /\ last.pre.state = "Authenticated"

\* C7: close never fails and from every state leaves Disconnected, session id 0
\* and reply counter 65534; a second close leaves the same Session
C7_Close ==
    last.op = "close" =>
        /\ last.ok
        /\ session = [state |-> "Disconnected", session_id |-> 0,
                      reply_counter |-> 65534]
        /\ close(session) = session

\* C7 witness: close on an Authenticated session whose counter had wrapped
C7_Witness ==
    /\ last.op = "close"
    /\ last.pre.state = "Authenticated"
    /\ last.pre.session_id # 0
    /\ last.pre.reply_counter = 1

\* C8: when the response to the Connect request is a success response (AckOk or
\* AckData), connect returns Ok, the Session is Connected with that response's
\* session id, and no Auth request was sent
C8_ConnectSuccess ==
    (/\ call = "connect"
     /\ pc = "idle"
     /\ Len(rxlog) = 1
     /\ rxlog[1].ok
     /\ is_success(rxlog[1].packet.command)) =>
        /\ res.ok
        /\ session.state = "Connected"
        /\ session.session_id = rxlog[1].packet.session_id
        /\ Len(tx) = 1

\* C9: when the response to Connect is AckUnauth carrying session id s, the one
\* packet connect sends after it is an Auth request with session id s, reply id 0
\* and the 4-byte payload make_commkey(password, s, 50); the Session is left as it
\* was by that step and for as long as connect waits for the Auth response, and
\* nothing more is sent when that response has been read
C9_AuthRequest ==
    [][/\ (/\ pc = "connect_recv"
           /\ Len(rxlog') = 1
           /\ rxlog'[1].ok
           /\ rxlog'[1].packet.command = "AckUnauth") =>
              LET s    == rxlog'[1].packet.session_id
                  sent == SubSeq(tx', Len(tx) + 1, Len(tx'))
              IN  /\ session' = session
                  /\ Len(tx) = 1
                  /\ SubSeq(tx', 1, 1) = tx
                  /\ Len(sent) <= 1
                  /\ (pc' = "auth_recv") <=> (Len(sent) = 1)
                  /\ Len(sent) = 1 =>
                        LET d == decode(sent[1])
                        IN  /\ d.ok
                            /\ d.packet.command = "Auth"
                            /\ d.packet.session_id = s
                            /\ d.packet.reply_id = 0
                            /\ d.packet.payload = make_commkey(password, s, 50)
                            /\ Len(d.packet.payload) = 4
       /\ (pc = "auth_recv" /\ pc' = "auth_recv") =>
              (session' = session /\ tx' = tx)
       /\ (pc = "auth_recv" /\ pc' # "auth_recv") => tx' = tx]_vars

\* C9 witness: connect, configured with a non-zero password, has answered an
\* AckUnauth carrying session id 7 with its Auth packet and the Auth response is
\* waiting to be read
C9_Witness ==
    /\ pc = "auth_recv"
    /\ password = [hi |-> 32768, lo |-> 12345]
    /\ Len(rxlog) = 1
    /\ rxlog[1].ok
    /\ rxlog[1].packet.command = "AckUnauth"
    /\ rxlog[1].packet.session_id = 7
    /\ Len(tx) = 2
    /\ Len(tx[2]) = HEADER_SIZE + 4
    /\ rx # <<>>

\* C10: a success response (AckOk or AckData) to the Auth request makes connect
\* return Ok with the Session Connected, not Authenticated, and holding the
\* session id the Auth response carries
C10_AuthSuccess ==
    (/\ call = "connect"
     /\ pc = "idle"
     /\ Len(rxlog) = 2
     /\ rxlog[2].ok
     /\ is_success(rxlog[2].packet.command)) =>
        /\ res.ok
        /\ session.state = "Connected"
        /\ session.session_id = rxlog[2].packet.session_id

\* C11: an error response to the Auth request (AckError, AckErrorCmd,
\* AckErrorInit, AckErrorData) makes connect fail with AuthenticationFailed, any
\* other non-success response makes it fail with an unexpected-response error
\* carrying the received command, and in both cases the Session stays Disconnected
C11_AuthError ==
    (/\ call = "connect"
     /\ pc = "idle"
     /\ Len(rxlog) = 2
     /\ rxlog[2].ok
     /\ ~is_success(rxlog[2].packet.command)) =>
        /\ ~res.ok
        /\ session.state = "Disconnected"
        /\ is_error(rxlog[2].packet.command) => res.err = "AuthenticationFailed"
        /\ ~is_error(rxlog[2].packet.command) =>
              (/\ res.err = "InvalidResponse"
               /\ res.command = rxlog[2].packet.command)

\* C12: an error response to Connect (AckError, AckErrorCmd, AckErrorInit,
\* AckErrorData) fails with the device-error condition, a response that is
\* neither success, unauthorized nor error fails with the unexpected-response
\* condition naming the received command, and neither sends a further packet
C12_ConnectError ==
    (/\ call = "connect"
     /\ pc = "idle"
     /\ Len(rxlog) = 1
     /\ rxlog[1].ok
     /\ ~is_success(rxlog[1].packet.command)
     /\ rxlog[1].packet.command # "AckUnauth") =>
        /\ Len(tx) = 1
        /\ is_error(rxlog[1].packet.command) =>
              res = ResErr("InvalidResponse", "Device returned error")
        /\ ~is_error(rxlog[1].packet.command) =>
              res = ResErrCommand("InvalidResponse", "Unexpected response: ",
                                  rxlog[1].packet.command)

\* C13: after disconnect returns, whatever the Device's state was before, the
\* transport is not connected and the Session is Disconnected with session id 0
\* and reply counter 65534
C13_Disconnect ==
    (call = "disconnect" /\ pc = "idle") =>
        /\ ~stream
        /\ session = [state |-> "Disconnected", session_id |-> 0,
                      reply_counter |-> 65534]

\* C14: when a receive times out the call fails with ReadTimeout and changes
\* nothing else: the transport stays connected and the Session is as it was; and
\* while a call waits for a response the Session's state and session id are
\* those it had before the call
C14_ReceiveTimeout ==
    [][/\ (/\ pc # "idle"
           /\ Len(rxlog') = Len(rxlog) + 1
           /\ rxlog'[Len(rxlog')].err = "ReadTimeout") =>
              /\ pc' = "idle"
              /\ ~res'.ok
              /\ res'.err = "ReadTimeout"
              /\ stream
              /\ stream'
              /\ session' = session
              /\ rx' = rx
              /\ tx' = tx
       /\ pc' # "idle" =>
              /\ stream'
              /\ session'.state = session.state
              /\ session'.session_id = session.session_id]_vars

\* C14 witness: get_device_info timed out on a Session connected with id 7, and
\* the transport and the Session are still connected
C14_Witness ==
    /\ call = "get_device_info"
    /\ pc = "idle"
    /\ res.err = "ReadTimeout"
    /\ stream
    /\ session.state = "Connected"
    /\ session.session_id = 7

\* requests the Device sent on the connection whose answer it has not read: those
\* the device has not answered and the answers waiting in the socket
Outstanding == owed + Len(rx)

\* C15 as stated: between any two packets the Device sends on one transport
\* connection it has awaited exactly one response, so at most one request is
\* ever outstanding
C15_Original ==
    /\ link.gap = 1
    /\ Outstanding <= 1

\* C15: between any two packets the Device sends on one transport connection it
\* has made exactly one receive call, and at most one request is outstanding as
\* long as every receive call made on the connection has read a buffer
C15_HalfDuplex ==
    /\ link.gap = 1
    /\ ~link.lost => Outstanding <= 1

\* C15 witness: enable_device sent its request after the receive of an earlier
\* command on the same connection had timed out; the Device awaited one receive
\* between the two sends and the device now holds two unanswered requests
C15_Witness ==
    /\ call = "enable_device"
    /\ pc = "command_recv"
    /\ res.err = "ReadTimeout"
    /\ stream
    /\ link.sent
    /\ link.lost
    /\ link.awaits = 0
    /\ link.gap = 1
    /\ owed = 2
    /\ session.state = "Connected"

\* C16: decode(encode(p)) succeeds and returns a packet with p's command, session
\* id, reply id and payload
C16_RoundTrip ==
    (codec_op = "encode" /\ decoded # NoDecode) =>
        /\ decoded.ok
        /\ decoded.packet.command = packet_in.command
        /\ decoded.packet.session_id = packet_in.session_id
        /\ decoded.packet.reply_id = packet_in.reply_id
        /\ decoded.packet.payload = packet_in.payload

\* C16 witness: an Auth packet with distinct session id and reply id and a
\* two-byte payload went through encode and decode
C16_Witness ==
    /\ codec_op = "encode"
    /\ decoded.ok
    /\ packet_in.command = "Auth"
    /\ packet_in.session_id = 2005
    /\ packet_in.reply_id = 65535
    /\ packet_in.payload = <<90, 255>>

\* C17: an encoded packet whose checksum field was changed to another value fails
\* to decode with ChecksumMismatch, expected being the checksum recomputed from
\* the packet, received the altered field, and the two different
C17_ChecksumMismatch ==
    (codec_op = "alter" /\ decoded # NoDecode) =>
        /\ ~decoded.ok
        /\ decoded.err = "ChecksumMismatch"
        /\ decoded.expected = calculate(to_code(packet_in.command),
                                        packet_in.session_id, packet_in.reply_id,
                                        packet_in.payload)
        /\ decoded.actual = wire_buf[3] + 256 * wire_buf[4]
        /\ decoded.expected # decoded.actual

\* C17 witness: a packet with a payload, its checksum field changed in the high
\* byte only, was refused
C17_Witness ==
    /\ codec_op = "alter"
    /\ decoded.err = "ChecksumMismatch"
    /\ Len(packet_in.payload) = 1
    /\ decoded.actual = (decoded.expected + 256) % 65536

\* C18: decode of a buffer of length n < 8 fails with PacketTooShort, expected 8
\* and actual n
C18_TooShort ==
    (decoded # NoDecode /\ Len(wire_buf) < 8) =>
        /\ ~decoded.ok
        /\ decoded.err = "PacketTooShort"
        /\ decoded.expected = 8
        /\ decoded.actual = Len(wire_buf)

\* C18 witness: a seven-byte buffer was refused
C18_Witness ==
    /\ codec_op = "truncate"
    /\ Len(wire_buf) = 7
    /\ decoded.err = "PacketTooShort"

\* the codes of the Command variants
Registry == {to_code(c) : c \in Commands}

\* C19: decode decides in a fixed order: a length below 8 gives PacketTooShort;
\* else a command code outside the registry gives UnknownCommand(code), the
\* checksum field not looked at; else a checksum difference gives
\* ChecksumMismatch; else the packet is returned
C19_DecodeOrder ==
    decoded # NoDecode =>
        IF Len(wire_buf) < 8
        THEN ~decoded.ok /\ decoded.err = "PacketTooShort"
        ELSE LET code  == wire_buf[1] + 256 * wire_buf[2]
                 field == wire_buf[3] + 256 * wire_buf[4]
                 sid   == wire_buf[5] + 256 * wire_buf[6]
                 rid   == wire_buf[7] + 256 * wire_buf[8]
                 body  == SubSeq(wire_buf, 9, Len(wire_buf))
             IN  IF code \notin Registry
                 THEN /\ ~decoded.ok
                      /\ decoded.err = "UnknownCommand"
                      /\ decoded.expected = code
                 ELSE IF calculate(code, sid, rid, body) # field
                 THEN ~decoded.ok /\ decoded.err = "ChecksumMismatch"
                 ELSE /\ decoded.ok
                      /\ to_code(decoded.packet.command) = code
                      /\ decoded.packet.session_id = sid
                      /\ decoded.packet.reply_id = rid
                      /\ decoded.packet.payload = body

\* C19 witness: a buffer with the unknown code 9999 and a checksum field that is
\* wrong for it was refused as UnknownCommand(9999)
C19_Witness ==
    /\ codec_op = "recode"
    /\ decoded.err = "UnknownCommand"
    /\ decoded.expected = 9999
    /\ Len(wire_buf) > 8
    /\ calculate(9999, wire_buf[5] + 256 * wire_buf[6], wire_buf[7] + 256 * wire_buf[8],
                 SubSeq(wire_buf, 9, Len(wire_buf))) # wire_buf[3] + 256 * wire_buf[4]

\* the payload's little-endian 16-bit words added up, an odd last byte counted
\* as a word with high byte 0
RECURSIVE PayloadWords(_)
PayloadWords(q) ==
    IF Len(q) = 0 THEN 0
    ELSE IF Len(q) = 1 THEN q[1]
    ELSE q[1] + 256 * q[2] + PayloadWords(SubSeq(q, 3, Len(q)))

\* the reference checksum: the words of the stream added, 0xFFFF taken off while
\* the sum exceeds 0xFFFF, and the 16-bit complement of the result
RefChecksum(cmd, sid, rid, q) ==
    LET total  == cmd + sid + rid + PayloadWords(q)
        folded == IF total <= 65535 THEN total ELSE ((total - 1) % 65535) + 1
    IN  65535 - folded

\* C20: checksum::calculate equals the reference algorithm
C20_Calculate ==
    codec_op = "calculate" =>
        calculated = RefChecksum(to_code(packet_in.command), packet_in.session_id,
                                 packet_in.reply_id, packet_in.payload)

\* C20 witness: a checksum calculated over an odd-length payload whose words add
\* up to more than twice 0xFFFF
C20_Witness ==
    /\ codec_op = "calculate"
    /\ Len(packet_in.payload) = 1
    /\ to_code(packet_in.command) + packet_in.session_id + packet_in.reply_id
       + packet_in.payload[1] > 2 * 65535

\* C21 as stated: changing the command alone, or the session id alone, to any
\* other 16-bit value changes the checksum
C21_Original ==
    (fn_in.f = "calculate" /\ fn_in.done) =>
        /\ fn_in.c1 # fn_in.c2 => fn_out.base # fn_out.cmd
        /\ fn_in.s1 # fn_in.s2 => fn_out.base # fn_out.sid

\* C21 amended: changing the command alone, or the session id alone, changes the
\* checksum unless the two values are 0 and 0xFFFF
C21_Sensitivity ==
    (fn_in.f = "calculate" /\ fn_in.done) =>
        /\ (fn_in.c1 # fn_in.c2 /\ {fn_in.c1, fn_in.c2} # {0, 65535}) =>
              fn_out.base # fn_out.cmd
        /\ (fn_in.s1 # fn_in.s2 /\ {fn_in.s1, fn_in.s2} # {0, 65535}) =>
              fn_out.base # fn_out.sid

\* C21 witness: checksums taken with commands 1 and 65535 and session ids 0 and
\* 65534 over a payload, all three different
C21_Witness ==
    /\ fn_in.f = "calculate"
    /\ fn_in.done
    /\ fn_in.c1 = 1
    /\ fn_in.c2 = 65535
    /\ fn_in.s1 = 0
    /\ fn_in.s2 = 65534
    /\ Len(fn_in.p) = 1
    /\ fn_out.base # fn_out.cmd
    /\ fn_out.base # fn_out.sid

\* C22: verify is true exactly when the expected value is the calculated
\* checksum; it accepts that value and rejects that value plus 1 (mod 65536)
C22_Verify ==
    (fn_in.f = "verify" /\ fn_in.done) =>
        /\ fn_out.ok <=> (fn_out.e = calculate(fn_in.c, fn_in.s, fn_in.r, fn_in.p))
        /\ fn_in.how = "same" => fn_out.ok
        /\ fn_in.how = "plus1" => ~fn_out.ok

\* C22 witness: the checksum 65535 plus 1, which is 0, was rejected
C22_Witness ==
    /\ fn_in.f = "verify"
    /\ fn_in.done
    /\ fn_in.how = "plus1"
    /\ fn_out.e = 0
    /\ ~fn_out.ok

\* the 16 bits of x in reverse order
RECURSIVE Rev16(_, _)
Rev16(x, n) == IF n = 0 THEN 0 ELSE (x % 2) * 2 ^ (n - 1) + Rev16(x \div 2, n - 1)

\* the reference derivation: k = bitreverse32(password) + session_id mod 2^32,
\* its little-endian bytes XORed with "ZKSO", the halves swapped, then bytes 0, 1
\* and 3 XORed with ticks and byte 2 set to ticks
RefCommKey(p, s, ticks) ==
    LET lo == (Rev16(p.hi, 16) + s) % 65536
        hi == (Rev16(p.lo, 16) + ((Rev16(p.hi, 16) + s) \div 65536)) % 65536
        z  == Xor(lo % 256, 90, 8)
        k  == Xor(lo \div 256, 75, 8)
        s2 == Xor(hi % 256, 83, 8)
        o  == Xor(hi \div 256, 79, 8)
    IN  <<Xor(s2, ticks, 8), Xor(o, ticks, 8), ticks, Xor(k, ticks, 8)>>

\* C23: make_commkey returns the 4 bytes of the reference derivation, byte 2
\* being ticks
C23_MakeCommkey ==
    (fn_in.f = "make_commkey" /\ fn_in.done) =>
        /\ Len(fn_out.base) = 4
        /\ fn_out.base = RefCommKey(fn_in.p1, fn_in.s1, fn_in.t)
        /\ fn_out.base[3] = fn_in.t
        /\ fn_out.pwd = RefCommKey(fn_in.p2, fn_in.s1, fn_in.t)
        /\ fn_out.sid = RefCommKey(fn_in.p1, fn_in.s2, fn_in.t)

\* C23 witness: the key of password 0xFFFFFFFF and session id 65535, where the
\* addition wraps around 2^32, and the key of password 0, session id 32031,
\* ticks 50
C23_Witness ==
    /\ fn_in.f = "make_commkey"
    /\ fn_in.done
    /\ fn_in.p1 = [hi |-> 65535, lo |-> 65535]
    /\ fn_in.s1 = 65535
    /\ fn_in.p2 = [hi |-> 0, lo |-> 0]
    /\ fn_in.s2 = 32031
    /\ fn_in.t = 50
    /\ fn_out.base = <<97, 125, 50, 134>>

\* C24: for a fixed ticks value, changing the password alone, or the session id
\* alone, changes the key
C24_KeySensitivity ==
    (fn_in.f = "make_commkey" /\ fn_in.done) =>
        /\ fn_in.p1 # fn_in.p2 => fn_out.base # fn_out.pwd
        /\ fn_in.s1 # fn_in.s2 => fn_out.base # fn_out.sid

\* C25: try_from(u16::from(c)) is Ok(c) for every Command c, and try_from(n) is
\* Ok exactly when n is the code of a Command, else Err(UnknownCommand(n)); 9999,
\* 1008, 16, 77 and 0xFFFE are refused
C25_Registry ==
    /\ (fn_in.f = "command" /\ fn_in.done) =>
          /\ fn_out.back.ok
          /\ fn_out.back.command = fn_in.c
    /\ (fn_in.f = "try_from" /\ fn_in.done) =>
          /\ fn_out.ok <=> (fn_in.n \in Registry)
          /\ fn_out.ok => to_code(fn_out.command) = fn_in.n
          /\ ~fn_out.ok => (fn_out.err = "UnknownCommand" /\ fn_out.code = fn_in.n)
          /\ fn_in.n \in {9999, 1008, 16, 77, 65534} => ~fn_out.ok

\* C25 witness: the gap code 1008 was refused as UnknownCommand(1008)
C25_Witness ==
    /\ fn_in.f = "try_from"
    /\ fn_in.done
    /\ fn_in.n = 1008
    /\ fn_out.err = "UnknownCommand"
    /\ fn_out.code = 1008

\* C26: exactly one of is_request and is_response holds; is_success holds exactly
\* for AckOk and AckData, is_error exactly for the four error acks; the two are
\* disjoint and each implies is_response; the Packet predicates agree
C26_Classification ==
    (fn_in.f = "command" /\ fn_in.done) =>
        /\ fn_out.request # fn_out.response
        /\ fn_out.success <=> (fn_in.c \in {"AckOk", "AckData"})
        /\ fn_out.error <=>
              (fn_in.c \in {"AckError", "AckErrorCmd", "AckErrorInit", "AckErrorData"})
        /\ ~(fn_out.success /\ fn_out.error)
        /\ fn_out.success => fn_out.response
        /\ fn_out.error => fn_out.response
        /\ fn_out.p_response = fn_out.response
        /\ fn_out.p_success = fn_out.success
        /\ fn_out.p_error = fn_out.error

\* C26 witness: AckData classified as a success response
C26_Witness ==
    /\ fn_in.f = "command"
    /\ fn_in.done
    /\ fn_in.c = "AckData"
    /\ fn_out.success
    /\ fn_out.p_success
    /\ ~fn_out.request

\* C27: wrap_tcp_packet(d) is 0x5050, 0x8272, len(d) as 32 bits, all
\* little-endian, then d, 8 + len(d) bytes in all, and unwrap_tcp_packet of it is d
C27_WrapRoundTrip ==
    (fn_in.f = "wrap" /\ fn_in.done) =>
        /\ Len(fn_out.wrapped) = 8 + Len(fn_in.d)
        /\ fn_out.wrapped = <<80, 80, 114, 130, Len(fn_in.d), 0, 0, 0>> \o fn_in.d
        /\ fn_out.unwrapped = fn_in.d

\* C27 witness: two bytes wrapped into ten and unwrapped, and the empty sequence
\* is covered by the same formula
C27_Witness ==
    /\ fn_in.f = "wrap"
    /\ fn_in.done
    /\ fn_in.d = <<90, 255>>
    /\ Len(fn_out.wrapped) = 10
    /\ fn_out.unwrapped = <<90, 255>>

\* C28: unwrap_tcp_packet returns a buffer shorter than 8 bytes, or one not
\* starting with 50 50 72 82 (hex), unchanged, and takes exactly the first 8
\* bytes off any other, whatever its length field says
C28_Unwrap ==
    (fn_in.f = "unwrap" /\ fn_in.done) =>
        IF Len(fn_in.b) >= 8 /\ SubSeq(fn_in.b, 1, 4) = <<80, 80, 114, 130>>
        THEN fn_out = SubSeq(fn_in.b, 9, Len(fn_in.b))
        ELSE fn_out = fn_in.b

\* C28 witness: a buffer with both magic words, a declared length of 0xFFFFFFFF
\* and one byte of data gave that byte
C28_Witness ==
    /\ fn_in.f = "unwrap"
    /\ fn_in.done
    /\ Len(fn_in.b) = 9
    /\ SubSeq(fn_in.b, 1, 8) = <<80, 80, 114, 130, 255, 255, 255, 255>>
    /\ fn_out = <<fn_in.b[9]>>

\* C29: on either transport, connect on a connected transport fails with
\* AlreadyConnected and the connection stays; send and receive with no connection
\* fail with NotConnected; disconnect returns Ok and leaves is_connected false,
\* and a connect made then is not refused
C29_TransportGuards ==
    /\ (tlast.op = "connect" /\ tlast.was) =>
          (~tlast.ok /\ tlast.err = "AlreadyConnected" /\ stream)
    /\ (tlast.op \in {"send", "receive"} /\ ~tlast.was) =>
          (~tlast.ok /\ tlast.err = "NotConnected" /\ ~stream)
    /\ tlast.op = "disconnect" => (tlast.ok /\ ~stream)
    /\ (tlast.op = "connect" /\ ~tlast.was) =>
          /\ tlast.err # "AlreadyConnected"
          /\ tlast.net = "Ok" => (tlast.ok /\ stream)

\* C29 witness: a second connect on a connected UDP transport, with a buffer
\* waiting in the socket, was refused
C29_Witness ==
    /\ proto = "udp"
    /\ tlast.op = "connect"
    /\ tlast.was
    /\ tlast.err = "AlreadyConnected"
    /\ stream
    /\ rx # <<>>

\* C30: every handle made by cloning shows the same state, the same session id
\* and the same next reply id as the handle it was cloned from, after any calls
\* made through any of them
C30_SharedHandles ==
    \A h \in DOMAIN handles :
        /\ get_state(Inner(h)) = get_state(Inner(1))
        /\ get_session_id(Inner(h)) = get_session_id(Inner(1))
        /\ next_reply_id(Inner(h)).ret = next_reply_id(Inner(1)).ret

\* C30 witness: three handles on a Session that was initialized, authenticated
\* and handed out reply ids past the wrap
C30_Witness ==
    /\ Len(handles) = 3
    /\ last.op = "next_reply_id"
    /\ last.arg = 2
    /\ get_state(Inner(3)) = "Authenticated"
    /\ get_session_id(Inner(2)) = 2005
    /\ next_reply_id(Inner(1)).ret = 1

\* a step of the Device, not of its peer: nothing arrived in the socket
DeviceStep == Len(rx') <= Len(rx)

\* the calls that build a command packet when the Device is connected
PacketCalls ==
    {c.name : c \in AwaitedCalls \cup UnawaitedCalls} \cup {"disconnect"}

\* C31: a command packet built on a connected Device (the Exit of disconnect
\* included) carries the Session's session id and the reply id
\* (65534 + k - 1) mod 65536, k - 1 being the number of command packets built
\* since the handshake, and consumes that one id; the Connect and Auth packets
\* carry reply id 0 and leave the counter alone; a successful handshake starts the
\* count again, so the first command after a reconnect carries 65534
C31_ReplyIds ==
    [][/\ (/\ pc = "idle"
           /\ DeviceStep
           /\ call' \in PacketCalls
           /\ device_is_connected(session, stream)) =>
              LET k_th == (INITIAL_REPLY_ID + Len(ids)) % U16
              IN  /\ Len(tx') <= 1
                  /\ Len(tx') = 1 =>
                        LET d == decode(tx'[1])
                        IN  /\ d.ok
                            /\ d.packet.session_id = session.session_id
                            /\ d.packet.reply_id = k_th
                  /\ session'.state # "Disconnected" =>
                        /\ ids' = Append(ids, k_th)
                        /\ session'.reply_counter = (k_th + 1) % U16
                        /\ session'.session_id = session.session_id
       /\ call' = "connect" =>
              /\ \A i \in DOMAIN tx' :
                    /\ decode(tx'[i]).packet.reply_id = 0
                    /\ decode(tx'[i]).packet.command \in {"Connect", "Auth"}
              /\ (Len(tx') >= 1 /\ pc = "idle") =>
                    decode(tx'[1]).packet = PacketNew("Connect", 0, 0)
              /\ session'.reply_counter # session.reply_counter =>
                    (res'.ok /\ pc' = "idle")
              /\ (pc # "idle" /\ pc' = "idle" /\ res'.ok) =>
                    /\ session'.reply_counter = INITIAL_REPLY_ID
                    /\ ids' = <<>>]_vars

\* C31 witness: disconnect sent its Exit as the third command packet of a Session
\* with id 7, carrying the reply id 0 that follows 65534 and 65535
C31_Witness ==
    /\ call = "disconnect"
    /\ pc = "idle"
    /\ Len(tx) = 1
    /\ decode(tx[1]).packet = with_payload("Exit", 7, 0, <<>>)
    /\ session.state = "Disconnected"

\* buffer b is a whole AckOk packet: long enough, command code 2000 and the
\* checksum of its own fields
WholeAckOk(b) ==
    /\ Len(b) >= HEADER_SIZE
    /\ from_le_bytes(b[1], b[2]) = 2000
    /\ from_le_bytes(b[3], b[4]) =
          calculate(2000, from_le_bytes(b[5], b[6]), from_le_bytes(b[7], b[8]),
                    SubSeq(b, 9, Len(b)))

\* C32: the Device's Session leaves Disconnected only in the step of connect that
\* read a whole AckOk packet, as the response to Connect or, after an AckUnauth, to
\* Auth, and connect then returns Ok; when connect, called with the Session
\* Disconnected, returns an error (transport connect, send, timeout, closed
\* connection, undecodable response, any other response) the Session is still
\* Disconnected with session id 0
C32_LeavesDisconnected ==
    [][/\ (session.state = "Disconnected" /\ session'.state # "Disconnected") =>
              /\ call' = "connect"
              /\ pc \in {"connect_recv", "auth_recv"}
              /\ pc' = "idle"
              /\ res'.ok
              /\ rx # <<>>
              /\ WholeAckOk(Head(rx))
              /\ session'.state = "Connected"
              /\ session'.session_id = from_le_bytes(Head(rx)[5], Head(rx)[6])
              /\ pc = "auth_recv" =>
                    (Len(rxlog) = 1 /\ rxlog[1].packet.command = "AckUnauth")
       /\ (/\ call' = "connect"
           /\ pc' = "idle"
           /\ ~res'.ok
           /\ session.state = "Disconnected") =>
              /\ session'.state = "Disconnected"
              /\ session'.session_id = 0]_vars

\* C32 witness: connect read an AckOk whose checksum field was damaged, failed
\* with ChecksumMismatch and left the Session Disconnected with session id 0 on an
\* open transport
C32_Witness ==
    /\ call = "connect"
    /\ pc = "idle"
    /\ ~res.ok
    /\ res.err = "ChecksumMismatch"
    /\ stream
    /\ session.state = "Disconnected"
    /\ session.session_id = 0

\* C33: a successful authenticate changes the state field only: the session id
\* and the reply counter are what they were before the call, so the next reply id
\* is the one that would have been handed out without it
C33_AuthenticateFrame ==
    (last.op = "authenticate" /\ last.ok) =>
        /\ session = [last.pre EXCEPT !.state = "Authenticated"]
        /\ session.session_id = last.pre.session_id
        /\ session.reply_counter = last.pre.reply_counter
        /\ next_reply_id(session).ret = next_reply_id(last.pre).ret

\* C33 witness: authenticate succeeded on a Session with id 2005 whose counter had
\* wrapped to 0, and both are as they were
C33_Witness ==
    /\ last.op = "authenticate"
    /\ last.ok
    /\ last.pre = [state |-> "Connected", session_id |-> 2005, reply_counter |-> 0]
    /\ session.session_id = 2005
    /\ session.reply_counter = 0

\* C34: whatever a read returns is decoded and handed to the call that is
\* waiting, whatever reply id and session id it carries: a command succeeds or
\* fails by the response's command alone, no call ever fails with InvalidReplyId,
\* and a response left in the socket by a call that timed out is taken as the
\* response of the next command
C34_NoPairing ==
    [][/\ (pc # "idle" /\ Len(rxlog') = Len(rxlog) + 1 /\ rx # <<>>) =>
              LET d   == decode(Head(rx))
                  got == rxlog'[Len(rxlog')]
              IN  /\ got.ok = d.ok
                  /\ d.ok => got.packet = d.packet
                  /\ (pc = "command_recv" /\ d.ok) =>
                        /\ pc' = "idle"
                        /\ res'.ok <=> is_success(d.packet.command)
                        /\ session' = session
       /\ res'.err # "InvalidReplyId"]_vars

\* C34 witness: enable_device returned Ok on a response that was in the socket
\* before its request was sent (the device still owes the answer to that request)
\* and that carries another reply id and another session id than the request
C34_Witness ==
    /\ call = "enable_device"
    /\ pc = "idle"
    /\ res.ok
    /\ owed = 1
    /\ rx = <<>>
    /\ Len(tx) = 1
    /\ Len(rxlog) = 1
    /\ rxlog[1].ok
    /\ decode(tx[1]).packet.reply_id = 65535
    /\ rxlog[1].packet.reply_id = 0
    /\ decode(tx[1]).packet.session_id = 7
    /\ rxlog[1].packet.session_id = 5

\* C35: disconnect on a connected Device closes the transport, leaves the Session
\* Disconnected with session id 0 and returns Ok, and does so too when the Exit
\* packet could not be sent: the send failure is logged and nothing of it reaches
\* the caller
C35_ExitBestEffort ==
    [][/\ (/\ pc = "idle"
           /\ DeviceStep
           /\ call' = "disconnect"
           /\ device_is_connected(session, stream)) =>
              /\ pc' = "idle"
              /\ res'.ok
              /\ res'.err = "None"
              /\ ~stream'
              /\ session' = [state |-> "Disconnected", session_id |-> 0,
                             reply_counter |-> INITIAL_REPLY_ID]
              /\ tx' = <<>> <=> res'.msg = "Failed to send EXIT command"
       /\ (pc' = "idle" /\ res'.msg = "Failed to send EXIT command") =>
              (call' = "disconnect" /\ res'.ok /\ ~stream'
               /\ session'.state = "Disconnected")]_vars

\* C35 witness: disconnect returned Ok after its Exit could not be sent, with the
\* transport closed and the Session reset
C35_Witness ==
    /\ call = "disconnect"
    /\ pc = "idle"
    /\ res.ok
    /\ res.msg = "Failed to send EXIT command"
    /\ tx = <<>>
    /\ ~stream
    /\ session = [state |-> "Disconnected", session_id |-> 0,
                  reply_counter |-> INITIAL_REPLY_ID]

\* C36: a connect called right after a disconnect returned is never refused with
\* AlreadyConnected: it fails before the transport is open or goes on to send a
\* new Connect request; in particular after a connect that failed once the
\* transport was open
C36_Recoverable ==
    [][(/\ pc = "idle"
        /\ DeviceStep
        /\ call = "disconnect"
        /\ call' = "connect") =>
           /\ ~(pc' = "idle" /\ res'.err = "AlreadyConnected")
           /\ pc' = "connect_recv" =>
                 (Len(tx') = 1 /\ decode(tx'[1]).packet.command = "Connect")]_vars

\* C37: get_device_info, enable_device, disable_device, restart and power_off
\* called while Device.is_connected is false fail with NotConnected at once:
\* nothing is sent, no reply id is taken, the Session and the transport are as
\* they were
C37_NotConnected ==
    [][(/\ pc = "idle"
        /\ DeviceStep
        /\ call' \in PacketCalls \ {"disconnect"}
        /\ ~device_is_connected(session, stream)) =>
           /\ pc' = "idle"
           /\ ~res'.ok
           /\ res'.err = "NotConnected"
           /\ tx' = <<>>
           /\ session' = session
           /\ ids' = ids
           /\ stream' = stream
           /\ owed' = owed]_vars

\* C37 witness: restart was refused with NotConnected on a Device whose transport
\* is open and whose Session is Disconnected; nothing was sent and the counter is
\* at 65534
C37_Witness ==
    /\ call = "restart"
    /\ pc = "idle"
    /\ res.err = "NotConnected"
    /\ stream
    /\ session.state = "Disconnected"
    /\ session.reply_counter = INITIAL_REPLY_ID
    /\ tx = <<>>

\* C38: between the Device's calls, a Session that is Connected or Authenticated
\* has its transport connected; while connect waits for a response the Session is
\* Disconnected, so its initialize is never refused: no call fails with
\* InvalidSessionState
C38_SessionNeedsTransport ==
    /\ (pc = "idle" /\ session.state \in {"Connected", "Authenticated"}) => stream
    /\ pc \in {"connect_recv", "auth_recv"} => session.state = "Disconnected"
    /\ res.err # "InvalidSessionState"

\* C38 witness: connect returned Ok through the Auth exchange and the Session,
\* initialized with id 7, sits on a connected transport
C38_Witness ==
    /\ call = "connect"
    /\ pc = "idle"
    /\ res.ok
    /\ Len(rxlog) = 2
    /\ session.state = "Connected"
    /\ session.session_id = 7
    /\ stream

\* C39: the reply ids handed out by concurrent next_reply_id calls on one
\* Session, with no close or initialize among them, are all different (fewer
\* than 65536 calls are made)
C39_NoDuplicateIds ==
    \A i, j \in DOMAIN ids : i # j => ids[i] # ids[j]

\* C40: no frame produced by Packet::encode is longer than the protocol maximum
\* of 65535 bytes (header and at most MAX_PAYLOAD_SIZE bytes of payload); a
\* packet with a longer payload is rejected, never encoded
C40_FrameWithinMaximum ==
    codec_op = "encode" => Len(wire_buf) <= HEADER_SIZE + MAX_PAYLOAD_SIZE

====
